---------------------------- MODULE Spec2Model ----------------------------
(***************************************************************************)
(* A model of cachebro's cache engine (packages/sdk/src/cache.ts and       *)
(* packages/sdk/src/differ.ts): the revision store (file_versions), the    *)
(* mtime index (file_mtimes), the read pointers (session_reads), the event *)
(* log and the metrics, with CacheStore.readFile, readFileFull, prune and   *)
(* warmupFiles acting on them, and the file system and the git branch as   *)
(* environment; CacheStore.listDirectory, revertFile and init (the schema  *)
(* version of the store); the retry loop of withDb; and computeDiff on its *)
(* own.                                                                    *)
(*                                                                         *)
(* A text is modelled as the sequence of its lines, text.split("\n"): the  *)
(* empty string is <<"">>, "a\nb\n" is <<"a", "b", "">>.  The lines are    *)
(* TLA+ strings, so Len gives their JavaScript length.                     *)
(***************************************************************************)
EXTENDS Integers, Sequences, FiniteSets, TLC

(***************************************************************************)
(* Bounds of the model.                                                    *)
(***************************************************************************)
\* Modification times the file system hands out are 1..MaxMtime.
MaxMtime == 2
\* Metered calls (rows of session_metrics, summed over calls) are capped.
MaxCalls == 2
\* The cap on the calls where a client follows a file through its changes.
MaxHistory == 4
\* The old texts given to computeDiff have up to MaxLines lines.
MaxLines == 5

(***************************************************************************)
(* The inputs.                                                             *)
(***************************************************************************)
Sessions == {"s1", "s2"}
Branches == {"main", "dev"}
\* Absolute paths; IgnoredPaths match an ignore pattern (".git", ...).
TrackedPaths == {"/w/f"}
IgnoredPaths == {"/w/.git/c"}
Paths == TrackedPaths \cup IgnoredPaths
\* The directory that is listed, and its key in the store (absPath + "/").
Dir == "/w"
DirKeys == {"/w/"}
\* The values of the column path in file_versions and session_reads.
StorePaths == Paths \cup DirKeys
Mtimes == 1 .. MaxMtime

\* File contents on disk: a three-line file and the same with line 1 changed;
\* MoreContents adds the same with line 2 changed.
Contents == { <<"a", "b", "c">>, <<"A", "b", "c">> }
MoreContents == Contents \cup { <<"a", "B", "c">> }

\* An optional number that was not passed (options?.offset is undefined).
undefined == -1

\* The (offset, limit) pairs of the requests: a full read, line 1 (the line
\* the contents differ in) and line 2 (a line they share).
FullRead == << undefined, undefined >>
Requests == { FullRead, <<1, 1>>, <<2, 1>> }

(***************************************************************************)
(* JavaScript helpers.                                                     *)
(***************************************************************************)
Max(a, b) == IF a >= b THEN a ELSE b
Min(a, b) == IF a <= b THEN a ELSE b

\* x ?? d
Nullish(x, d) == IF x = undefined THEN d ELSE x

\* Array.prototype.slice(start, end): negative indices count from the end.
JsSlice(arr, start, end) ==
    LET n    == Len(arr)
        from == IF start < 0 THEN Max(n + start, 0) ELSE Min(start, n)
        to   == IF end < 0 THEN Max(n + end, 0) ELSE Min(end, n)
    IN  IF from < to THEN SubSeq(arr, from + 1, to) ELSE << >>

\* lines.join("\n") read back as a text: joining no lines gives "".
Join(lines) == IF lines = << >> THEN << "" >> ELSE lines

RECURSIVE SumLen(_, _)
SumLen(text, i) == IF i > Len(text) THEN 0 ELSE Len(text[i]) + SumLen(text, i + 1)

\* text.length: the lines and the newlines between them.
TextLen(text) == SumLen(text, 1) + Len(text) - 1

\* Math.ceil(text.length * 0.75)
estimateTokens(text) == (3 * TextLen(text) + 3) \div 4

\* sha256(content).slice(0, 16): a digest taken as collision free, so one
\* digest per content; it is not a text.
contentHash(content) == << "sha256", content >>

\* No row / no value where a hash or a text is expected.
NoHash == << >>
NoText == << >>


(***************************************************************************)
(* The differ (packages/sdk/src/differ.ts).                                *)
(***************************************************************************)
RECURSIVE LcsLen(_, _, _, _)
\* Length of a longest common subsequence of a[i..] and b[j..].
LcsLen(a, b, i, j) ==
    IF i > Len(a) \/ j > Len(b) THEN 0
    ELSE IF a[i] = b[j] THEN 1 + LcsLen(a, b, i + 1, j + 1)
    ELSE Max(LcsLen(a, b, i + 1, j), LcsLen(a, b, i, j + 1))

RECURSIVE EditOps(_, _, _, _)
\* A shortest edit script from a[i..] to b[j..], one "keep", "remove" or "add"
\* per step.
EditOps(a, b, i, j) ==
    IF i > Len(a) /\ j > Len(b) THEN << >>
    ELSE IF i <= Len(a) /\ j <= Len(b) /\ a[i] = b[j]
         THEN << "keep" >> \o EditOps(a, b, i + 1, j + 1)
    ELSE IF j > Len(b)
            \/ (i <= Len(a) /\ LcsLen(a, b, i + 1, j) >= LcsLen(a, b, i, j + 1))
         THEN << "remove" >> \o EditOps(a, b, i + 1, j)
    ELSE << "add" >> \o EditOps(a, b, i, j + 1)

RECURSIVE GroupOps(_, _, _, _, _)
\* The runs of non-kept steps of ops[k..] as ranges <<sx, ex, sy, ey>>
\* (0-based, end exclusive); x and y are the lines consumed so far and
\* open is the range being built, or << >>.
GroupOps(ops, k, x, y, open) ==
    IF k > Len(ops)
    THEN IF open = << >> THEN << >> ELSE << <<open[1], x, open[2], y>> >>
    ELSE IF ops[k] = "keep"
         THEN (IF open = << >> THEN << >> ELSE << <<open[1], x, open[2], y>> >>)
              \o GroupOps(ops, k + 1, x + 1, y + 1, << >>)
    ELSE LET o == IF open = << >> THEN <<x, y>> ELSE open
         IN  IF ops[k] = "remove"
             THEN GroupOps(ops, k + 1, x + 1, y, o)
             ELSE GroupOps(ops, k + 1, x, y + 1, o)

\* fast-myers-diff's diff(xs, ys): the changed ranges [sx, ex, sy, ey] of a
\* shortest edit script, in order: xs[sx..ex) is replaced by ys[sy..ey).
diff(xs, ys) == GroupOps(EditOps(xs, ys, 1, 1), 1, 0, 0, << >>)

\* One entry of rawLines.
RawLine(type, line, oldLine, newLine) ==
    [type |-> type, line |-> line, oldLine |-> oldLine, newLine |-> newLine]

\* The kept entries for old lines oldPos .. upTo-1 (0-based).
KeepRun(oldLines, oldPos, newPos, upTo) ==
    [k \in 1 .. Max(upTo - oldPos, 0) |->
        RawLine("keep", oldLines[oldPos + k], oldPos + k, newPos + k)]

\* The entries of one change [sx, ex, sy, ey]: its removed lines, each
\* pointing at the next new line, then its added lines.
ChangeRun(oldLines, newLines, ch, newPos) ==
    [k \in 1 .. (ch[2] - ch[1]) |->
        RawLine("remove", oldLines[ch[1] + k], ch[1] + k, newPos + 1)]
    \o
    [k \in 1 .. (ch[4] - ch[3]) |->
        RawLine("add", newLines[ch[3] + k], ch[2] + 1, ch[3] + k)]

RECURSIVE RawLines(_, _, _, _, _, _)
\* The loop over the changes, from change c on, and the remaining kept lines.
RawLines(oldLines, newLines, changes, c, oldPos, newPos) ==
    IF c > Len(changes)
    THEN KeepRun(oldLines, oldPos, newPos, Len(oldLines))
    ELSE LET ch   == changes[c]
             kept == Max(ch[1] - oldPos, 0)
         IN  KeepRun(oldLines, oldPos, newPos, ch[1])
             \o ChangeRun(oldLines, newLines, ch, newPos + kept)
             \o RawLines(oldLines, newLines, changes, c + 1, ch[2], ch[4])

\* changedNewLines: the new line of every added entry and, for a removed
\* entry, the new-file position it points at.
ChangedNewLines(raw) ==
    { raw[i].newLine : i \in { k \in DOMAIN raw : raw[k].type # "keep" } }

\* A count of the lines of the new text that are not in the old one: the
\* added entries only.
LinesAdded(raw) == Cardinality({ k \in DOMAIN raw : raw[k].type = "add" })

\* A count of the lines of the old text that are gone: the removed entries
\* only.
LinesRemoved(raw) == Cardinality({ k \in DOMAIN raw : raw[k].type = "remove" })

\* linesChanged: added plus removed entries.
LinesChanged(raw) == Cardinality({ k \in DOMAIN raw : raw[k].type # "keep" })

CONTEXT == 3

\* lastChangeIdx before the first change.
NoChangeIdx == -999

\* rawLines[from .. to-1] (0-based).
RawRange(raw, from, to) == [k \in 1 .. Max(to - from, 0) |-> raw[from + k]]

RECURSIVE PushMissing(_, _, _, _)
\* for (c = from; c < to; c++) if (!hunk.includes(rawLines[c])) hunk.push(rawLines[c])
PushMissing(hunk, raw, from, to) ==
    IF from >= to THEN hunk
    ELSE PushMissing(
            IF \E k \in DOMAIN hunk : hunk[k] = raw[from + 1]
            THEN hunk ELSE Append(hunk, raw[from + 1]),
            raw, from + 1, to)

RECURSIVE HunkGroups(_, _, _, _, _)
\* The grouping loop from entry i (0-based) on.
HunkGroups(raw, i, hunkGroups, currentHunk, lastChangeIdx) ==
    IF i >= Len(raw)
    THEN IF Len(currentHunk) > 0 THEN Append(hunkGroups, currentHunk) ELSE hunkGroups
    ELSE
      LET line == raw[i + 1] IN
      IF line.type # "keep"
      THEN LET far     == i - lastChangeIdx > CONTEXT * 2 + 1 /\ Len(currentHunk) > 0
               leading == RawRange(raw, Max(0, i - CONTEXT), i)
               groups1 == IF far THEN Append(hunkGroups, currentHunk) ELSE hunkGroups
               hunk1   == IF far \/ Len(currentHunk) = 0 THEN leading ELSE currentHunk
               contextEnd == lastChangeIdx + CONTEXT + 1
               hunk2   == PushMissing(hunk1, raw,
                              Max(contextEnd, IF Len(hunk1) > 0 THEN i ELSE 0), i)
           IN  HunkGroups(raw, i + 1, groups1, Append(hunk2, line), i)
      ELSE IF i - lastChangeIdx <= CONTEXT /\ Len(currentHunk) > 0
           THEN HunkGroups(raw, i + 1, hunkGroups, Append(currentHunk, line), lastChangeIdx)
      ELSE HunkGroups(raw, i + 1, hunkGroups, currentHunk, lastChangeIdx)

\* The header and the prefixed lines of one hunk.
FormatHunk(hunk) ==
    LET oldCount == Cardinality({ k \in DOMAIN hunk : hunk[k].type # "add" })
        newCount == Cardinality({ k \in DOMAIN hunk : hunk[k].type # "remove" })
    IN  << "@@ -" \o ToString(hunk[1].oldLine) \o "," \o ToString(oldCount)
           \o " +" \o ToString(hunk[1].newLine) \o "," \o ToString(newCount) \o " @@" >>
        \o [k \in DOMAIN hunk |->
              (IF hunk[k].type = "add" THEN "+"
               ELSE IF hunk[k].type = "remove" THEN "-" ELSE " ") \o hunk[k].line]

RECURSIVE FormatHunks(_, _)
FormatHunks(groups, g) ==
    IF g > Len(groups) THEN << >>
    ELSE (IF Len(groups[g]) = 0 THEN << >> ELSE FormatHunk(groups[g]))
         \o FormatHunks(groups, g + 1)

\* computeDiff(oldContent, newContent, filePath)
computeDiff(oldContent, newContent, filePath) ==
    LET raw == RawLines(oldContent, newContent, diff(oldContent, newContent), 1, 0, 0)
        n   == LinesChanged(raw)
    IN  IF n = 0
        THEN [diff |-> << "" >>, linesChanged |-> 0, hasChanges |-> FALSE,
              changedNewLines |-> ChangedNewLines(raw)]
        ELSE [diff |-> << "--- a/" \o filePath, "+++ b/" \o filePath >>
                       \o FormatHunks(HunkGroups(raw, 0, << >>, << >>, NoChangeIdx), 1),
              linesChanged |-> n, hasChanges |-> TRUE,
              changedNewLines |-> ChangedNewLines(raw)]

(***************************************************************************)
(* The state: the file system and the git branch (the environment), the    *)
(* tables of the store, and the outcome of the last call.  Date.now()      *)
(* values are not modelled: rows of file_versions and session_events are   *)
(* kept in insertion order, which is their created_at / timestamp order,   *)
(* and session_reads.read_at is left out.                                  *)
(***************************************************************************)
VARIABLES
    disk,             \* path -> [exists, content, mtime]: stat and read
    branch,           \* what `git branch --show-current` answers
    file_versions,    \* path -> its revisions [hash, content, lines], oldest first
    session_reads,    \* <<session, branch, path>> -> hash, or NoHash
    file_mtimes,      \* path -> [hash, mtime_ms], or NoEntry
    session_events,   \* the rows [session_id, branch, type, path, hash] in order
    session_metrics,  \* <<session, branch, tool>> -> [calls, tokens_original, tokens_actual]
    stats,            \* the value of the row 'tokens_saved'
    session_stats,    \* session -> its 'tokens_saved' value
    indexed_files,    \* path -> the hash indexed for search, or NoHash
    user_version,     \* PRAGMA user_version: the schema version of the store
    initialized,      \* the clients (CacheStore objects) that have run init
    inflight,         \* caller -> the call it has in withDb: the statements left
    res               \* the last call and what it returned or threw

vars == << disk, branch, file_versions, session_reads, file_mtimes,
           session_events, session_metrics, stats, session_stats,
           indexed_files, user_version, initialized, inflight, res >>

Tools == {"read_file", "list_directory", "revert_file"}
NoEntry == [hash |-> NoHash, mtime_ms |-> 0]
NoFile == [exists |-> FALSE, content |-> NoText, mtime |-> 0]
NoMetric == [calls |-> 0, tokens_original |-> 0, tokens_actual |-> 0]

\* The callers that may have a call in withDb at the same time: two promises
\* of one process, or two processes on one store.
Callers == {"c1", "c2"}

\* A caller with no call made.
Idle == [phase |-> "idle", op |-> "none", session |-> "s1", path |-> "/w/f",
         offset |-> undefined, limit |-> undefined, stmts |-> << >>,
         write |-> NoText, result |-> "none"]

\* The tables as one value: what a statement reads and writes.
Db == [file_versions   |-> file_versions,
       session_reads   |-> session_reads,
       file_mtimes     |-> file_mtimes,
       session_events  |-> session_events,
       session_metrics |-> session_metrics,
       stats           |-> stats,
       session_stats   |-> session_stats,
       indexed_files   |-> indexed_files,
       user_version    |-> user_version]

\* The tables after SCHEMA on a fresh database.
SCHEMA ==
    [file_versions   |-> [p \in StorePaths |-> << >>],
     session_reads   |-> [k \in Sessions \X Branches \X StorePaths |-> NoHash],
     file_mtimes     |-> [p \in Paths |-> NoEntry],
     session_events  |-> << >>,
     session_metrics |-> [k \in Sessions \X Branches \X Tools |-> NoMetric],
     stats           |-> 0,
     session_stats   |-> [s \in Sessions |-> 0],
     indexed_files   |-> [p \in Paths |-> NoHash]]

CURRENT_SCHEMA_VERSION == 7

\* The store becomes d.
SetDb(d) ==
    /\ file_versions' = d.file_versions
    /\ session_reads' = d.session_reads
    /\ file_mtimes' = d.file_mtimes
    /\ session_events' = d.session_events
    /\ session_metrics' = d.session_metrics
    /\ stats' = d.stats
    /\ session_stats' = d.session_stats
    /\ indexed_files' = d.indexed_files
    /\ user_version' = d.user_version

\* SELECT content, lines FROM file_versions WHERE path = ? AND hash = ?
SelectVersion(db, path, hash) ==
    { db.file_versions[path][i] :
        i \in { k \in DOMAIN db.file_versions[path] :
                  db.file_versions[path][k].hash = hash } }

\* sum(calls) over session_metrics
TotalCalls(db) ==
    LET RECURSIVE Sum(_)
        Sum(K) == IF K = {} THEN 0
                  ELSE LET k == CHOOSE x \in K : TRUE
                       IN  db.session_metrics[k].calls + Sum(K \ {k})
    IN  Sum(DOMAIN db.session_metrics)

(***************************************************************************)
(* The statements that write to the store.  Each runs in its own implicit  *)
(* transaction: withDb opens a connection and runs the callback without    *)
(* BEGIN/COMMIT.                                                           *)
(***************************************************************************)
\* INSERT OR REPLACE INTO file_mtimes
PutMtime(db, st) ==
    [db EXCEPT !.file_mtimes[st.path] = [hash |-> st.hash, mtime_ms |-> st.mtime]]

\* logEvent: INSERT INTO session_events
LogEvent(db, st) ==
    [db EXCEPT !.session_events =
        Append(@, [session_id |-> st.session, branch |-> st.branch,
                   type |-> st.type, path |-> st.path, hash |-> st.hash])]

\* addMetrics: INSERT INTO session_metrics ... ON CONFLICT DO UPDATE
UpsertMetrics(db, st) ==
    [db EXCEPT !.session_metrics[<<st.session, st.branch, st.tool>>] =
        [calls           |-> @.calls + 1,
         tokens_original |-> @.tokens_original + st.original,
         tokens_actual   |-> @.tokens_actual + st.actual]]

\* addTokensSavedInternal: UPDATE stats SET value = value + ?
AddStats(db, st) == [db EXCEPT !.stats = @ + st.tokens]

\* addTokensSavedInternal: INSERT INTO session_stats ... ON CONFLICT DO UPDATE
AddSessionStats(db, st) == [db EXCEPT !.session_stats[st.session] = @ + st.tokens]

\* updateIndexInternal, search being enabled: nothing when the indexed hash
\* is this one, else the row of file_content_fts is replaced and
\* indexed_files set.
UpdateIndex(db, st) ==
    IF db.indexed_files[st.path] = st.hash THEN db
    ELSE [db EXCEPT !.indexed_files[st.path] = st.hash]

\* A plain INSERT INTO file_versions on a table without the primary key: a
\* row is added whether or not (path, hash) is there.
InsertVersionAlways(db, st) ==
    [db EXCEPT !.file_versions[st.path] =
        Append(@, [hash |-> st.hash, content |-> st.content, lines |-> st.lines])]

\* INSERT OR IGNORE INTO file_versions: nothing when (path, hash) is there.
InsertVersion(db, st) ==
    IF SelectVersion(db, st.path, st.hash) # {} THEN db
    ELSE [db EXCEPT !.file_versions[st.path] =
            Append(@, [hash |-> st.hash, content |-> st.content, lines |-> st.lines])]

\* An INSERT OR REPLACE INTO session_reads on a table keyed by session and
\* path only: the row counts on every branch.
ReplaceReadAnyBranch(db, st) ==
    [db EXCEPT !.session_reads =
        [k \in DOMAIN @ |-> IF k[1] = st.session /\ k[3] = st.path THEN st.hash
                            ELSE @[k]]]

\* An INSERT OR REPLACE INTO session_reads on a table keyed by branch and
\* path only: the row is every session's.
ReplaceReadAnySession(db, st) ==
    [db EXCEPT !.session_reads =
        [k \in DOMAIN @ |-> IF k[2] = st.branch /\ k[3] = st.path THEN st.hash
                            ELSE @[k]]]

\* INSERT OR REPLACE INTO session_reads
ReplaceRead(db, st) ==
    [db EXCEPT !.session_reads[<<st.session, st.branch, st.path>>] = st.hash]

\* UPDATE session_reads SET hash = ?, read_at = ? WHERE ...: only an existing row.
UpdateRead(db, st) ==
    IF db.session_reads[<<st.session, st.branch, st.path>>] = NoHash THEN db
    ELSE [db EXCEPT !.session_reads[<<st.session, st.branch, st.path>>] = st.hash]

\* One statement.
Exec(db, st) ==
    CASE st.op = "put_mtime"         -> PutMtime(db, st)
      [] st.op = "log_event"         -> LogEvent(db, st)
      [] st.op = "upsert_metrics"    -> UpsertMetrics(db, st)
      [] st.op = "add_stats"         -> AddStats(db, st)
      [] st.op = "add_session_stats" -> AddSessionStats(db, st)
      [] st.op = "update_index"      -> UpdateIndex(db, st)
      [] st.op = "insert_version"    -> InsertVersion(db, st)
      [] st.op = "replace_read"      -> ReplaceRead(db, st)
      [] st.op = "update_read"       -> UpdateRead(db, st)
      [] st.op = "touch_read"        -> db    \* UPDATE session_reads SET read_at = ?

RECURSIVE ExecAll(_, _)
\* The statements of stmts in order.
ExecAll(db, stmts) ==
    IF stmts = << >> THEN db ELSE ExecAll(Exec(db, Head(stmts)), Tail(stmts))

(***************************************************************************)
(* CacheStore.readFile (packages/sdk/src/cache.ts).                        *)
(***************************************************************************)
\* (options?.offset ?? 0) > 0 || (options?.limit ?? 0) > 0
isPartial(offset, limit) == Nullish(offset, 0) > 0 \/ Nullish(limit, 0) > 0

\* sliceLines of readFile's closure, for the call's offset and limit.
sliceLines(text, offset, limit) ==
    IF ~isPartial(offset, limit) THEN text
    ELSE LET start == Nullish(offset, 1) - 1
             end   == IF limit # undefined /\ limit # 0 THEN start + limit ELSE Len(text)
         IN  Join(JsSlice(text, start, end))

\* `~${originalTokens}`, or `~${(originalTokens / 1000).toFixed(1)}k` from 1000 on.
SavedLabel(originalTokens) ==
    IF originalTokens >= 1000
    THEN LET tenths == (originalTokens + 50) \div 100
         IN  "~" \o ToString(tenths \div 10) \o "." \o ToString(tenths % 10) \o "k"
    ELSE "~" \o ToString(originalTokens)

\* The confirmation of an unchanged read; "|" stands for the one-character
\* middle dot (U+00B7) of the source.
UnchangedLabel(offset, limit, currentLines, originalTokens) ==
    IF isPartial(offset, limit)
    THEN << "[unchanged | lines " \o ToString(Nullish(offset, 1)) \o "-"
            \o ToString(IF limit # undefined /\ limit # 0
                        THEN Nullish(offset, 1) + limit - 1 ELSE currentLines)
            \o " of " \o ToString(currentLines) \o " | "
            \o SavedLabel(originalTokens) \o " saved]" >>
    ELSE << "[unchanged | " \o ToString(currentLines) \o " lines | "
            \o SavedLabel(originalTokens) \o " saved]" >>

MAX_DIFF_LINES == 200

\* A truncation that says nothing: the first MAX_DIFF_LINES lines and no note.
DiffOutputSilent(diffResult) ==
    IF Len(diffResult.diff) > MAX_DIFF_LINES
    THEN SubSeq(diffResult.diff, 1, MAX_DIFF_LINES)
    ELSE diffResult.diff

\* diffOutput: the diff, cut after MAX_DIFF_LINES lines with a note.
DiffOutput(diffResult) ==
    IF Len(diffResult.diff) > MAX_DIFF_LINES
    THEN SubSeq(diffResult.diff, 1, MAX_DIFF_LINES)
         \o << "[... diff truncated at " \o ToString(MAX_DIFF_LINES) \o " lines. File has "
               \o ToString(diffResult.linesChanged) \o " total changes.]" >>
    ELSE diffResult.diff

\* addMetrics: the upsert and, when tokens were saved, addTokensSavedInternal.
addMetrics(session, br, tool, original, actual) ==
    << [op |-> "upsert_metrics", session |-> session, branch |-> br, tool |-> tool,
        original |-> original, actual |-> actual] >>
    \o (IF Max(0, original - actual) > 0
        THEN << [op |-> "add_stats", tokens |-> Max(0, original - actual)],
                [op |-> "add_session_stats", session |-> session,
                 tokens |-> Max(0, original - actual)] >>
        ELSE << >>)

logEvent(session, br, type, path, hash) ==
    [op |-> "log_event", session |-> session, branch |-> br, type |-> type,
     path |-> path, hash |-> hash]

\* A FileReadResult; a field the code leaves out is undefined / NoText.
FileReadResult(cached, content, diffText, hash, linesChanged, totalLines) ==
    [cached |-> cached, content |-> content, diff |-> diffText, hash |-> hash,
     linesChanged |-> linesChanged, totalLines |-> totalLines]

\* A Resolve that reads and hashes the file on a miss and leaves the mtime
\* row as it was.
ResolveKeepsRow(db, dsk, path) ==
    LET row      == db.file_mtimes[path]
        mtimeRow == row # NoEntry /\ row.mtime_ms = dsk[path].mtime
        cachedVersion == IF mtimeRow THEN SelectVersion(db, path, row.hash) ELSE {}
    IN  IF cachedVersion # {}
        THEN LET v == CHOOSE x \in cachedVersion : TRUE
             IN  [hash |-> row.hash, content |-> v.content, lines |-> v.lines,
                  stmts |-> << >>]
        ELSE [hash |-> contentHash(dsk[path].content), content |-> dsk[path].content,
              lines |-> Len(dsk[path].content), stmts |-> << >>]

\* The mtime fast path: the current hash, content and line count, from the
\* revision the mtime row names when the row has the file's mtime and the
\* revision is stored, else from the file, with the row rewritten.
Resolve(db, dsk, path) ==
    LET row      == db.file_mtimes[path]
        mtimeRow == row # NoEntry /\ row.mtime_ms = dsk[path].mtime
        cachedVersion == IF mtimeRow THEN SelectVersion(db, path, row.hash) ELSE {}
    IN  IF cachedVersion # {}
        THEN LET v == CHOOSE x \in cachedVersion : TRUE
             IN  [hash |-> row.hash, content |-> v.content, lines |-> v.lines,
                  stmts |-> << >>]
        ELSE [hash |-> contentHash(dsk[path].content), content |-> dsk[path].content,
              lines |-> Len(dsk[path].content),
              stmts |-> << [op |-> "put_mtime", path |-> path,
                            hash |-> contentHash(dsk[path].content),
                            mtime |-> dsk[path].mtime] >>]

\* A ReadIgnored that logs the read as the other branches do.
ReadIgnoredLogged(dsk, session, br, path, offset, limit, toolName) ==
    LET content == sliceLines(dsk[path].content, offset, limit)
    IN  [stmts  |-> << logEvent(session, br, "read", path,
                                contentHash(dsk[path].content)) >>
                    \o addMetrics(session, br, toolName, estimateTokens(content),
                                  estimateTokens(content)),
         result |-> FileReadResult(FALSE, content, NoText,
                                   contentHash(dsk[path].content), undefined,
                                   Len(dsk[path].content))]

\* The branch of an ignored path: the file as it is, metered, nothing stored.
ReadIgnored(dsk, session, br, path, offset, limit, toolName) ==
    LET content == sliceLines(dsk[path].content, offset, limit)
    IN  [stmts  |-> addMetrics(session, br, toolName, estimateTokens(content),
                               estimateTokens(content)),
         result |-> FileReadResult(FALSE, content, NoText,
                                   contentHash(dsk[path].content), undefined,
                                   Len(dsk[path].content))]

\* A FirstRead that sets the pointer before it stores the revision.
FirstReadPointerFirst(cur, session, br, path, offset, limit, toolName) ==
    LET originalTokens == estimateTokens(sliceLines(cur.content, offset, limit))
    IN  [stmts  |-> << logEvent(session, br, "read", path, cur.hash) >>
                    \o addMetrics(session, br, toolName, originalTokens, originalTokens)
                    \o << [op |-> "update_index", path |-> path, hash |-> cur.hash],
                          [op |-> "replace_read", session |-> session, branch |-> br,
                           path |-> path, hash |-> cur.hash],
                          [op |-> "insert_version", path |-> path, hash |-> cur.hash,
                           content |-> cur.content, lines |-> cur.lines] >>,
         result |-> FileReadResult(FALSE, sliceLines(cur.content, offset, limit), NoText,
                                   cur.hash, undefined, cur.lines)]

\* The end of readFile: the read is logged and metered at full price, the
\* revision stored and the pointer set; the content is returned.
FirstRead(cur, session, br, path, offset, limit, toolName) ==
    LET originalTokens == estimateTokens(sliceLines(cur.content, offset, limit))
    IN  [stmts  |-> << logEvent(session, br, "read", path, cur.hash) >>
                    \o addMetrics(session, br, toolName, originalTokens, originalTokens)
                    \o << [op |-> "update_index", path |-> path, hash |-> cur.hash],
                          [op |-> "insert_version", path |-> path, hash |-> cur.hash,
                           content |-> cur.content, lines |-> cur.lines],
                          [op |-> "replace_read", session |-> session, branch |-> br,
                           path |-> path, hash |-> cur.hash] >>,
         result |-> FileReadResult(FALSE, sliceLines(cur.content, offset, limit), NoText,
                                   cur.hash, undefined, cur.lines)]

\* lastHash === currentHash: the confirmation.
Unchanged(cur, session, br, path, offset, limit, toolName) ==
    LET originalTokens == estimateTokens(sliceLines(cur.content, offset, limit))
        label == UnchangedLabel(offset, limit, cur.lines, originalTokens)
    IN  [stmts  |-> << logEvent(session, br, "read", path, cur.hash) >>
                    \o addMetrics(session, br, toolName, originalTokens,
                                  estimateTokens(label))
                    \o << [op |-> "touch_read", session |-> session, branch |-> br,
                           path |-> path] >>,
         result |-> FileReadResult(TRUE, label, NoText, cur.hash, 0, cur.lines)]

\* A Changed that advances only when it has no diff to return: with the old
\* revision and a non-empty diff it logs the write and meters the call, and
\* leaves the revision store and the pointer as they were.
ChangedKeepsPointer(db, cur, lastHash, session, br, path, offset, limit, toolName) ==
    LET oldVersion == SelectVersion(db, path, lastHash)
        diffResult == computeDiff((CHOOSE v \in oldVersion : TRUE).content,
                                  cur.content, path)
        rest == FirstRead(cur, session, br, path, offset, limit, toolName)
    IN  IF oldVersion # {} /\ diffResult.hasChanges
        THEN LET diffOutput == DiffOutput(diffResult)
                 actualContent == IF isPartial(offset, limit)
                                  THEN sliceLines(cur.content, offset, limit)
                                  ELSE diffOutput
             IN  [stmts  |-> << logEvent(session, br, "write", path, cur.hash) >>
                             \o addMetrics(session, br, toolName,
                                    estimateTokens(sliceLines(cur.content, offset, limit)),
                                    estimateTokens(actualContent)),
                  result |-> FileReadResult(TRUE, actualContent, diffOutput, cur.hash,
                                            diffResult.linesChanged, cur.lines)]
        ELSE [stmts |-> << logEvent(session, br, "write", path, cur.hash) >>
                        \o rest.stmts,
              result |-> rest.result]

\* What readFile returns with a non-empty diff: the diff cut to
\* MAX_DIFF_LINES lines (for a range, the slice as content), the count of
\* changed lines as computeDiff gave it.
DiffAnswer(cur, diffResult, offset, limit) ==
    LET diffOutput == DiffOutput(diffResult)
        actualContent == IF isPartial(offset, limit)
                         THEN sliceLines(cur.content, offset, limit)
                         ELSE diffOutput
    IN  FileReadResult(TRUE, actualContent, diffOutput, cur.hash,
                       diffResult.linesChanged, cur.lines)

\* lastHash differs: the write is logged, the revision stored and the pointer
\* advanced; with the old revision and a non-empty diff the diff (or, for a
\* range, the slice) is returned, else the call ends as a first read does.
Changed(db, cur, lastHash, session, br, path, offset, limit, toolName) ==
    LET oldVersion == SelectVersion(db, path, lastHash)
        advance == << logEvent(session, br, "write", path, cur.hash),
                      [op |-> "update_index", path |-> path, hash |-> cur.hash],
                      [op |-> "insert_version", path |-> path, hash |-> cur.hash,
                       content |-> cur.content, lines |-> cur.lines],
                      [op |-> "update_read", session |-> session, branch |-> br,
                       path |-> path, hash |-> cur.hash] >>
        diffResult == computeDiff((CHOOSE v \in oldVersion : TRUE).content,
                                  cur.content, path)
        rest == FirstRead(cur, session, br, path, offset, limit, toolName)
    IN  IF oldVersion # {} /\ diffResult.hasChanges
        THEN LET diffOutput == DiffOutput(diffResult)
                 actualContent == IF isPartial(offset, limit)
                                  THEN sliceLines(cur.content, offset, limit)
                                  ELSE diffOutput
             IN  [stmts  |-> advance
                             \o addMetrics(session, br, toolName,
                                    estimateTokens(sliceLines(cur.content, offset, limit)),
                                    estimateTokens(actualContent)),
                  result |-> DiffAnswer(cur, diffResult, offset, limit)]
        ELSE [stmts |-> advance \o rest.stmts, result |-> rest.result]

\* statSync(absPath) on a missing file: the call throws, no statement is run.
ENOENT == [ok |-> FALSE, stmts |-> << >>, result |-> "ENOENT"]

\* A readFile that looks for the file only inside the callback, after the
\* call has been logged: on a missing file it throws with the event written.
readFileStatInCallback(db, dsk, br, session, path, offset, limit, toolName) ==
    IF ~dsk[path].exists
    THEN [ok |-> FALSE, stmts |-> << logEvent(session, br, "read", path, NoHash) >>,
          result |-> "ENOENT"]
    ELSE LET plan == FirstRead(Resolve(db, dsk, path), session, br, path, offset, limit,
                               toolName)
         IN  [ok |-> TRUE, stmts |-> plan.stmts, result |-> plan.result]

\* readFile: whether it returns, the statements of the callback in order, and
\* what it returns when all of them succeed.
readFile(db, dsk, br, session, path, offset, limit, toolName) ==
    IF ~dsk[path].exists THEN ENOENT
    ELSE IF path \in IgnoredPaths
    THEN LET plan == ReadIgnored(dsk, session, br, path, offset, limit, toolName)
         IN  [ok |-> TRUE, stmts |-> plan.stmts, result |-> plan.result]
    ELSE
      LET cur      == Resolve(db, dsk, path)
          lastHash == db.session_reads[<<session, br, path>>]
          plan     == IF lastHash = NoHash
                      THEN FirstRead(cur, session, br, path, offset, limit, toolName)
                      ELSE IF lastHash = cur.hash
                      THEN Unchanged(cur, session, br, path, offset, limit, toolName)
                      ELSE Changed(db, cur, lastHash, session, br, path, offset, limit,
                                   toolName)
      IN  [ok |-> TRUE, stmts |-> cur.stmts \o plan.stmts, result |-> plan.result]

(***************************************************************************)
(* CacheStore.readFileFull and CacheStore.prune.                           *)
(***************************************************************************)
\* A readFileFull that bypasses the store as well as the cache: the file is
\* returned and metered, and nothing else is written.
readFileFullBypass(dsk, br, session, path, toolName) ==
    LET currentContent == dsk[path].content
        originalTokens == estimateTokens(currentContent)
    IN  IF ~dsk[path].exists THEN ENOENT
        ELSE [ok     |-> TRUE,
              stmts  |-> addMetrics(session, br, toolName, originalTokens, originalTokens),
              result |-> FileReadResult(FALSE, currentContent, NoText,
                                        contentHash(currentContent), undefined,
                                        Len(currentContent))]

\* readFileFull: always the file itself, from the disk.
readFileFull(dsk, br, session, path, toolName) ==
    LET currentContent == dsk[path].content
        currentHash    == contentHash(currentContent)
        originalTokens == estimateTokens(currentContent)
        result == FileReadResult(FALSE, currentContent, NoText, currentHash, undefined,
                                 Len(currentContent))
    IN  IF ~dsk[path].exists THEN ENOENT
        ELSE IF path \in IgnoredPaths
        THEN [ok     |-> TRUE,
              stmts  |-> addMetrics(session, br, toolName, originalTokens, originalTokens),
              result |-> result]
        ELSE [ok     |-> TRUE,
              stmts  |-> << logEvent(session, br, "read", path, currentHash) >>
                         \o addMetrics(session, br, toolName, originalTokens, originalTokens)
                         \o << [op |-> "update_index", path |-> path, hash |-> currentHash],
                               [op |-> "insert_version", path |-> path, hash |-> currentHash,
                                content |-> currentContent, lines |-> Len(currentContent)],
                               [op |-> "put_mtime", path |-> path, hash |-> currentHash,
                                mtime |-> dsk[path].mtime],
                               [op |-> "replace_read", session |-> session, branch |-> br,
                                path |-> path, hash |-> currentHash] >>,
              result |-> result]

\* The oldest keepVersions revisions of one path: what the DELETE would keep
\* with ORDER BY created_at ASC.
KeepOldest(revs, keepVersions) == SubSeq(revs, 1, Min(keepVersions, Len(revs)))

\* The revisions of one path that prune(keepVersions) keeps: the newest
\* keepVersions by created_at.
KeepNewest(revs, keepVersions) ==
    SubSeq(revs, Max(Len(revs) - keepVersions, 0) + 1, Len(revs))

\* prune(keepVersions): the one DELETE, and result.changes.
prune(db, keepVersions) ==
    LET kept == [p \in StorePaths |-> KeepNewest(db.file_versions[p], keepVersions)]
        RECURSIVE Removed(_)
        Removed(P) == IF P = {} THEN 0
                      ELSE LET p == CHOOSE x \in P : TRUE
                           IN  Len(db.file_versions[p]) - Len(kept[p]) + Removed(P \ {p})
    IN  [db |-> [db EXCEPT !.file_versions = kept], changes |-> Removed(StorePaths)]

(***************************************************************************)
(* CacheStore.listDirectory.                                               *)
(***************************************************************************)
\* relative(cwd, fullPath) for the files under Dir, cwd being Dir.
relative == [p \in TrackedPaths |-> "f"]

\* The files under Dir in the order of their relative names.
SortedFiles == << "/w/f" >>

\* walk(absPath).sort(): the relative names of the files that are there and
\* not ignored.
walk(dsk) ==
    LET present == SelectSeq(SortedFiles, LAMBDA p : dsk[p].exists)
    IN  [i \in 1 .. Len(present) |-> relative[present[i]]]

\* The confirmation of an unchanged listing.
ItemsLabel(items, originalTokens) ==
    << "[unchanged | " \o ToString(items) \o " items | "
       \o SavedLabel(originalTokens) \o " saved]" >>

\* A DirectoryReadResult.
DirectoryReadResult(cached, content, hash, changes) ==
    [cached |-> cached, content |-> content, hash |-> hash, changes |-> changes]

\* A listDirectory that keeps no pointer in mind: every listing is answered in
\* full.
listDirectoryUncached(db, dsk, br, session, dirPath, toolName) ==
    LET files          == walk(dsk)
        content        == Join(files)
        currentHash    == contentHash(content)
        dbKey          == dirPath \o "/"
        originalTokens == estimateTokens(content)
    IN  [ok     |-> TRUE,
         stmts  |-> addMetrics(session, br, toolName, originalTokens, originalTokens)
                    \o << logEvent(session, br, "read", dbKey, currentHash),
                          [op |-> "insert_version", path |-> dbKey, hash |-> currentHash,
                           content |-> content, lines |-> Len(files)],
                          [op |-> "replace_read", session |-> session, branch |-> br,
                           path |-> dbKey, hash |-> currentHash] >>,
         result |-> DirectoryReadResult(FALSE, content, currentHash, 0)]

\* listDirectory: the statements of the callback in order, and what it
\* returns.  The listing is stored as a revision of dbKey, its line count
\* being the number of files.
listDirectory(db, dsk, br, session, dirPath, toolName) ==
    LET files          == walk(dsk)
        content        == Join(files)
        currentHash    == contentHash(content)
        dbKey          == dirPath \o "/"
        originalTokens == estimateTokens(content)
        lastHash       == db.session_reads[<<session, br, dbKey>>]
        oldVersion     == SelectVersion(db, dbKey, lastHash)
        insert  == [op |-> "insert_version", path |-> dbKey, hash |-> currentHash,
                    content |-> content, lines |-> Len(files)]
        first   == addMetrics(session, br, toolName, originalTokens, originalTokens)
                   \o << logEvent(session, br, "read", dbKey, currentHash),
                         insert,
                         [op |-> "replace_read", session |-> session, branch |-> br,
                          path |-> dbKey, hash |-> currentHash] >>
        advance == << insert,
                      [op |-> "update_read", session |-> session, branch |-> br,
                       path |-> dbKey, hash |-> currentHash] >>
        label      == ItemsLabel(Len(files), originalTokens)
        diffResult == computeDiff((CHOOSE v \in oldVersion : TRUE).content, content,
                                  dirPath)
    IN  IF lastHash # NoHash /\ lastHash = currentHash
        THEN [ok     |-> TRUE,
              stmts  |-> addMetrics(session, br, toolName, originalTokens,
                                    estimateTokens(label))
                         \o << logEvent(session, br, "read", dbKey, currentHash),
                               [op |-> "touch_read", session |-> session, branch |-> br,
                                path |-> dbKey] >>,
              result |-> DirectoryReadResult(TRUE, label, currentHash, 0)]
        ELSE IF lastHash # NoHash /\ oldVersion # {}
        THEN [ok     |-> TRUE,
              stmts  |-> advance
                         \o addMetrics(session, br, toolName, originalTokens,
                                       estimateTokens(diffResult.diff))
                         \o << logEvent(session, br, "write", dbKey, currentHash) >>,
              result |-> DirectoryReadResult(TRUE, diffResult.diff, currentHash,
                                             diffResult.linesChanged)]
        ELSE [ok     |-> TRUE,
              stmts  |-> (IF lastHash # NoHash THEN advance ELSE << >>) \o first,
              result |-> DirectoryReadResult(FALSE, content, currentHash, 0)]

(***************************************************************************)
(* CacheStore.revertFile.                                                  *)
(***************************************************************************)
\* A RevertResult; restoredHash is NoHash when the code leaves it out.
RevertResult(success, message, restoredHash) ==
    [success |-> success, message |-> message, restoredHash |-> restoredHash]

\* SELECT content, hash, created_at FROM file_versions WHERE path = ?
\* ORDER BY created_at DESC LIMIT ?
NewestFirst(revs, limit) ==
    [i \in 1 .. Min(limit, Len(revs)) |-> revs[Len(revs) + 1 - i]]

\* A revertFile that settles for the oldest revision when the history is
\* shorter than stepsBack + 1.
revertFileClamped(db, dsk, br, session, path, stepsBack, toolName, writable) ==
    LET versions == NewestFirst(db.file_versions[path], stepsBack + 1)
        targetVersion == versions[Len(versions)]
        metrics  == addMetrics(session, br, toolName, 0, 0)
    IN  IF versions = << >>
        THEN [stmts  |-> metrics, write |-> NoText,
              result |-> RevertResult(FALSE, "Only found 0 versions.", NoHash)]
        ELSE [stmts  |-> metrics
                         \o << logEvent(session, br, "write", path, targetVersion.hash),
                               [op |-> "replace_read", session |-> session, branch |-> br,
                                path |-> path, hash |-> targetVersion.hash] >>,
              write  |-> targetVersion.content,
              result |-> RevertResult(TRUE, "Reverted " \o path \o ".",
                                      targetVersion.hash)]

\* revertFile: the statements of the callback in order, what writeFileSync
\* writes to the file (NoText: nothing) and what the call returns; writable
\* says whether writeFileSync succeeds.
revertFile(db, dsk, br, session, path, stepsBack, toolName, writable) ==
    LET versions == NewestFirst(db.file_versions[path], stepsBack + 1)
        targetVersion == versions[stepsBack + 1]
        metrics  == addMetrics(session, br, toolName, 0, 0)
    IN  IF Len(versions) <= stepsBack
        THEN [stmts  |-> metrics, write |-> NoText,
              result |-> RevertResult(FALSE, "Only found " \o ToString(Len(versions))
                                             \o " versions.", NoHash)]
        ELSE IF ~writable
        THEN [stmts  |-> metrics, write |-> NoText,
              result |-> RevertResult(FALSE, "Write failed: EACCES", NoHash)]
        ELSE [stmts  |-> metrics
                         \o << logEvent(session, br, "write", path, targetVersion.hash),
                               [op |-> "replace_read", session |-> session, branch |-> br,
                                path |-> path, hash |-> targetVersion.hash] >>,
              write  |-> targetVersion.content,
              result |-> RevertResult(TRUE, "Reverted " \o path \o ".",
                                      targetVersion.hash)]

\* warmupFiles over the files of dsk: warmupBatch stores the revision of each
\* file that is there and not ignored and rewrites its mtime row, then
\* updateIndexBatch indexes it; each batch is one transaction.
warmupFiles(db, dsk) ==
    LET files == { p \in TrackedPaths : dsk[p].exists }
        RECURSIVE Batch(_, _)
        Batch(d, F) ==
            IF F = {} THEN d
            ELSE LET p == CHOOSE x \in F : TRUE
                     hash == contentHash(dsk[p].content)
                     item == [path |-> p, hash |-> hash, content |-> dsk[p].content,
                              lines |-> Len(dsk[p].content), mtime |-> dsk[p].mtime]
                 IN  Batch(UpdateIndex(PutMtime(InsertVersion(d, item), item), item),
                           F \ {p})
    IN  [db |-> Batch(db, files), filesProcessed |-> Cardinality(files)]

(***************************************************************************)
(* The state machine.                                                      *)
(***************************************************************************)
\* What res holds: the call, the file as it was on disk when the call was
\* made, whether the call returned (ok) and its value, or the error it threw.
Call(op, session, path, offset, limit, ok, value) ==
    [op |-> op, session |-> session, branch |-> branch, path |-> path,
     offset |-> offset, limit |-> limit, file |-> disk[path],
     ok |-> ok, value |-> value]

\* The values prune is called with.
KeepVersions == {1, 2}

\* A freshly initialised store, the files present, no call made yet.
Init ==
    /\ disk = [p \in Paths |->
                 [exists |-> TRUE, content |-> <<"a", "b", "c">>, mtime |-> 1]]
    /\ branch = "main"
    /\ file_versions = SCHEMA.file_versions
    /\ session_reads = SCHEMA.session_reads
    /\ file_mtimes = SCHEMA.file_mtimes
    /\ session_events = SCHEMA.session_events
    /\ session_metrics = SCHEMA.session_metrics
    /\ stats = SCHEMA.stats
    /\ session_stats = SCHEMA.session_stats
    /\ indexed_files = SCHEMA.indexed_files
    /\ user_version = CURRENT_SCHEMA_VERSION
    /\ initialized = Sessions
    /\ inflight = [c \in Callers |-> Idle]
    /\ res = Call("init", "s1", "/w/f", undefined, undefined, TRUE, "ok")

\* The cap on the metered calls and on the event log.
Metered == TotalCalls(Db) < MaxCalls /\ Len(session_events) < MaxCalls

\* Something writes the file: any content, and any modification time (an
\* editor, a checkout, a copy that keeps the time, two writes within one tick).
WriteFile(path, content, mtime) ==
    /\ disk[path] # [exists |-> TRUE, content |-> content, mtime |-> mtime]
    /\ disk' = [disk EXCEPT ![path] =
                   [exists |-> TRUE, content |-> content, mtime |-> mtime]]
    /\ UNCHANGED << branch, file_versions, session_reads, file_mtimes, session_events,
                    session_metrics, stats, session_stats, indexed_files, user_version,
                    initialized, inflight, res >>

\* The file is removed.
DeleteFile(path) ==
    /\ disk[path].exists
    /\ disk' = [disk EXCEPT ![path] = NoFile]
    /\ UNCHANGED << branch, file_versions, session_reads, file_mtimes, session_events,
                    session_metrics, stats, session_stats, indexed_files, user_version,
                    initialized, inflight, res >>

\* git checkout
SwitchBranch(br) ==
    /\ br # branch
    /\ branch' = br
    /\ UNCHANGED << disk, file_versions, session_reads, file_mtimes, session_events,
                    session_metrics, stats, session_stats, indexed_files, user_version,
                    initialized, inflight, res >>

\* The cap for a client that follows a file through its changes.
Followed == TotalCalls(Db) < MaxHistory /\ Len(session_events) < MaxHistory

\* The values revertFile is called with for stepsBack.
StepsBack == {1, 2}

\* readFile returns the whole file to a client that follows it.
ReadWhole(session, path) ==
    /\ disk[path].exists
    /\ Followed
    /\ LET run == readFile(Db, disk, branch, session, path, undefined, undefined,
                           "read_file")
       IN  /\ SetDb(ExecAll(Db, run.stmts))
           /\ res' = Call("readFile", session, path, undefined, undefined, run.ok,
                          run.result)
    /\ UNCHANGED << disk, branch, initialized, inflight >>

\* The file is written after the client has read what it holds: the client
\* reads every content the file goes through.
WriteRead(session, path, content, mtime) ==
    /\ session_reads[<<session, branch, path>>] = contentHash(disk[path].content)
    /\ disk[path].content # content
    /\ disk' = [disk EXCEPT ![path] =
                   [exists |-> TRUE, content |-> content, mtime |-> mtime]]
    /\ UNCHANGED << branch, file_versions, session_reads, file_mtimes, session_events,
                    session_metrics, stats, session_stats, indexed_files, user_version,
                    initialized, inflight, res >>

\* revertFile returns: the file has been written with the revision's content
\* (its modification time becomes mtime), or the call reports why not.
RevertFile(session, path, stepsBack, mtime, writable) ==
    /\ Followed
    /\ LET run == revertFile(Db, disk, branch, session, path, stepsBack, "revert_file",
                             writable)
       IN  /\ SetDb(ExecAll(Db, run.stmts))
           /\ disk' = IF run.write = NoText THEN disk
                      ELSE [disk EXCEPT ![path] =
                              [exists |-> TRUE, content |-> run.write, mtime |-> mtime]]
           /\ res' = Call("revertFile", session, path, stepsBack, undefined, TRUE,
                          run.result)
    /\ UNCHANGED << branch, initialized, inflight >>

\* readFile returns, or throws because the file is missing.
ReadFile(session, path, req) ==
    /\ disk[path].exists => Metered
    /\ LET run == readFile(Db, disk, branch, session, path, req[1], req[2], "read_file")
       IN  /\ SetDb(ExecAll(Db, run.stmts))
           /\ res' = Call("readFile", session, path, req[1], req[2], run.ok, run.result)
    /\ UNCHANGED << disk, branch, initialized, inflight >>

\* readFile throws in the callback: statement k + 1 of the call fails with an
\* error that withDb does not retry (or on its last attempt); the k
\* statements before it have been committed one by one.
ReadFileThrows(session, path, req) ==
    /\ disk[path].exists
    /\ Metered
    /\ LET run == readFile(Db, disk, branch, session, path, req[1], req[2], "read_file")
       IN  \E k \in 0 .. Len(run.stmts) - 1 :
             /\ SetDb(ExecAll(Db, SubSeq(run.stmts, 1, k)))
             /\ res' = Call("readFile", session, path, req[1], req[2], FALSE,
                            "SQLITE_ERROR")
    /\ UNCHANGED << disk, branch, initialized, inflight >>

\* readFileFull returns, or throws because the file is missing.
ReadFileFull(session, path) ==
    /\ disk[path].exists => Metered
    /\ LET run == readFileFull(disk, branch, session, path, "read_file")
       IN  /\ SetDb(ExecAll(Db, run.stmts))
           /\ res' = Call("readFileFull", session, path, undefined, undefined, run.ok,
                          run.result)
    /\ UNCHANGED << disk, branch, initialized, inflight >>

\* listDirectory returns.
ListDirectory(session) ==
    /\ Metered
    /\ LET run == listDirectory(Db, disk, branch, session, Dir, "list_directory")
       IN  /\ SetDb(ExecAll(Db, run.stmts))
           /\ res' = Call("listDirectory", session, "/w/f", undefined, undefined, run.ok,
                          run.result)
    /\ UNCHANGED << disk, branch, initialized, inflight >>

\* listDirectory returns to a client that follows the directory.
ListFollowed(session) ==
    /\ Followed
    /\ LET run == listDirectory(Db, disk, branch, session, Dir, "list_directory")
       IN  /\ SetDb(ExecAll(Db, run.stmts))
           /\ res' = Call("listDirectory", session, "/w/f", undefined, undefined, run.ok,
                          run.result)
    /\ UNCHANGED << disk, branch, initialized, inflight >>

\* prune returns.
Prune(keepVersions) ==
    /\ LET run == prune(Db, keepVersions)
       IN  /\ SetDb(run.db)
           /\ res' = Call("prune", "s1", "/w/f", undefined, undefined, TRUE, run.changes)
    /\ UNCHANGED << disk, branch, initialized, inflight >>

\* warmupFiles(dir) returns: every file under dir that is there and not ignored
\* has been stored (warmupBatch) and indexed (updateIndexBatch).
WarmupFiles ==
    /\ \E p \in TrackedPaths : disk[p].exists
    /\ LET run == warmupFiles(Db, disk)
       IN  /\ SetDb(run.db)
           /\ res' = Call("warmupFiles", "s1", "/w/f", undefined, undefined, TRUE,
                          run.filesProcessed)
    /\ UNCHANGED << disk, branch, initialized, inflight >>

(***************************************************************************)
(* Calls in withDb at the same time.  withDb opens a connection of its own *)
(* and starts no transaction: each statement of the callback commits by    *)
(* itself, and the statements of another call may commit in between.  A    *)
(* call's lookups (the mtime row, the pointer, the old revision, the       *)
(* revisions of revertFile) are taken when its callback starts.            *)
(***************************************************************************)
\* The callback of a caller's one call starts: what it will write and return
\* is settled by what it finds in the store now.
Start(c, op, session, path, offset, limit, run) ==
    /\ inflight[c].phase = "idle"
    /\ inflight' = [inflight EXCEPT ![c] =
                      [phase |-> "running", op |-> op, session |-> session,
                       path |-> path, offset |-> offset, limit |-> limit,
                       stmts |-> run.stmts, write |-> run.write,
                       result |-> run.result]]
    /\ UNCHANGED << disk, branch, file_versions, session_reads, file_mtimes,
                    session_events, session_metrics, stats, session_stats,
                    indexed_files, user_version, initialized, res >>

\* A call's plan with the content it writes to the file, if any.
Writing(run, content) ==
    [stmts |-> run.stmts, write |-> content, result |-> run.result]

StartReadFile(c, session, path, req) ==
    /\ disk[path].exists
    /\ Start(c, "readFile", session, path, req[1], req[2],
             Writing(readFile(Db, disk, branch, session, path, req[1], req[2],
                              "read_file"), NoText))

StartReadFileFull(c, session, path) ==
    /\ disk[path].exists
    /\ Start(c, "readFileFull", session, path, undefined, undefined,
             Writing(readFileFull(disk, branch, session, path, "read_file"), NoText))

StartListDirectory(c, session) ==
    Start(c, "listDirectory", session, Dir \o "/", undefined, undefined,
          Writing(listDirectory(Db, disk, branch, session, Dir, "list_directory"),
                  NoText))

StartRevertFile(c, session, path, stepsBack) ==
    Start(c, "revertFile", session, path, stepsBack, undefined,
          revertFile(Db, disk, branch, session, path, stepsBack, "revert_file", TRUE))

\* Caller c1 is the first to call, and it is the client of session s1.
Turn(c, session) ==
    IF c = "c1" THEN session = "s1" ELSE inflight["c1"].phase # "idle"

\* The next statement of a call commits.  revertFile writes the file
\* (writeFileSync, the file's modification time becoming mtime) right before
\* it logs the write.
Commit(c, mtime) ==
    /\ inflight[c].phase = "running"
    /\ inflight[c].stmts # << >>
    /\ SetDb(Exec(Db, Head(inflight[c].stmts)))
    /\ disk' = IF /\ inflight[c].write # NoText
                  /\ Head(inflight[c].stmts).op = "log_event"
               THEN [disk EXCEPT ![inflight[c].path] =
                       [exists |-> TRUE, content |-> inflight[c].write,
                        mtime |-> mtime]]
               ELSE disk
    /\ inflight' = [inflight EXCEPT ![c].stmts = Tail(@)]
    /\ UNCHANGED << branch, initialized, res >>

\* The callback returns, withDb closes the connection, the call returns.
Return(c) ==
    /\ inflight[c].phase = "running"
    /\ inflight[c].stmts = << >>
    /\ inflight' = [inflight EXCEPT ![c].phase = "returned"]
    /\ res' = Call(inflight[c].op, inflight[c].session, "/w/f", inflight[c].offset,
                   inflight[c].limit, TRUE, inflight[c].result)
    /\ UNCHANGED << disk, branch, file_versions, session_reads, file_mtimes,
                    session_events, session_metrics, stats, session_stats,
                    indexed_files, user_version, initialized >>

\* One client reading a file that is being written, across checkouts.
NextBranches ==
    \/ \E p \in TrackedPaths, c \in Contents, m \in Mtimes : WriteFile(p, c, m)
    \/ \E br \in Branches : SwitchBranch(br)
    \/ \E p \in TrackedPaths, r \in Requests : ReadFile("s1", p, r)

SpecBranches == Init /\ [][NextBranches]_vars

(***************************************************************************)
(* computeDiff on its own: old texts of distinct lines, and the new texts  *)
(* that keeping, changing, deleting each line or adding a line behind it   *)
(* gives.                                                                  *)
(***************************************************************************)
\* The lines of the old texts, and what a line is changed to.
BaseLines    == << "a", "b", "c", "d", "e", "f", "g", "h" >>
ChangedLine  == << "A", "B", "C", "D", "E", "F", "G", "H" >>
Edits == { "keep", "change", "delete", "append" }

RECURSIVE Edited(_, _, _)
\* The lines k .. n of the old text of n lines after the edits e.
Edited(n, e, k) ==
    IF k > n THEN << >>
    ELSE (CASE e[k] = "keep"   -> << BaseLines[k] >>
            [] e[k] = "change" -> << ChangedLine[k] >>
            [] e[k] = "delete" -> << >>
            [] e[k] = "append" -> << BaseLines[k], "x" >>)
         \o Edited(n, e, k + 1)

\* "a\nb\nc\n" and "a\nB\nc\nd\n"
ScenarioOld == << "a", "b", "c", "" >>
ScenarioNew == << "a", "B", "c", "d", "" >>

\* The pairs (oldContent, newContent) computeDiff is called with.
DiffInputs ==
    UNION { { << SubSeq(BaseLines, 1, n), Join(Edited(n, e, 1)) >> :
                e \in [1 .. n -> Edits] } : n \in 1 .. MaxLines }
    \cup { << ScenarioOld, ScenarioNew >> }

\* computeDiff(oldContent, newContent, filePath) returns; one call is
\* followed, as the function keeps nothing between calls.
ComputeDiff(oldContent, newContent) ==
    /\ res.op # "computeDiff"
    /\ res' = [op |-> "computeDiff", oldContent |-> oldContent,
               newContent |-> newContent,
               value |-> computeDiff(oldContent, newContent, "f")]
    /\ UNCHANGED << disk, branch, file_versions, session_reads, file_mtimes,
                    session_events, session_metrics, stats, session_stats,
                    indexed_files, user_version, initialized, inflight >>

NextDiff == \E input \in DiffInputs : ComputeDiff(input[1], input[2])

SpecDiff == Init /\ [][NextDiff]_vars

(***************************************************************************)
(* CacheStore.init on a store that an earlier or a later release, or this  *)
(* one, has left.                                                          *)
(***************************************************************************)
\* A table that does not exist.  (session_events and stats are modelled as
\* their rows only: without the table they are empty and 0.)
NoTable == << >>

\* db.exec(SCHEMA) and db.exec(SCHEMA_FTS): CREATE TABLE IF NOT EXISTS makes
\* the tables that are missing, empty, and leaves the others as they are;
\* INSERT OR IGNORE INTO stats leaves the row that is there.
ExecSchema(db) ==
    LET Ensure(t) == IF db[t] = NoTable THEN SCHEMA[t] ELSE db[t]
    IN  [db EXCEPT !.file_versions   = Ensure("file_versions"),
                   !.session_reads   = Ensure("session_reads"),
                   !.file_mtimes     = Ensure("file_mtimes"),
                   !.session_metrics = Ensure("session_metrics"),
                   !.session_stats   = Ensure("session_stats"),
                   !.indexed_files   = Ensure("indexed_files")]

\* SCHEMA_MIGRATIONS[v]: for 7, CREATE TABLE IF NOT EXISTS file_mtimes.
SCHEMA_MIGRATIONS(db, v) ==
    IF v = 7 /\ db.file_mtimes = NoTable
    THEN [db EXCEPT !.file_mtimes = SCHEMA.file_mtimes]
    ELSE db

RECURSIVE Migrate(_, _)
\* for (v = version + 1; v <= CURRENT_SCHEMA_VERSION; v++) the migrations of v
Migrate(db, v) ==
    IF v > CURRENT_SCHEMA_VERSION THEN db
    ELSE Migrate(SCHEMA_MIGRATIONS(db, v), v + 1)

\* An init that brings an older store to the current schema by making its
\* tables anew.
initRecreate(db) ==
    IF db.user_version < CURRENT_SCHEMA_VERSION
    THEN [ExecSchema([db EXCEPT !.file_versions = NoTable, !.session_reads = NoTable,
                                !.file_mtimes = NoTable])
            EXCEPT !.user_version = CURRENT_SCHEMA_VERSION]
    ELSE ExecSchema(db)

\* The callback of init: the store afterwards.
init(db) ==
    LET version == db.user_version
    IN  IF version = 0
        THEN [ExecSchema(db) EXCEPT !.user_version = CURRENT_SCHEMA_VERSION]
        ELSE IF version < CURRENT_SCHEMA_VERSION
        THEN [Migrate(ExecSchema(db), version + 1)
                EXCEPT !.user_version = CURRENT_SCHEMA_VERSION]
        ELSE ExecSchema(db)

\* The schema versions a store is found with: none (a new file), those of
\* earlier releases, the current one and that of a later release.
Versions == 0 .. CURRENT_SCHEMA_VERSION + 1

\* The rows an earlier run has left in file_versions and session_reads: no
\* read, one, or two of a file that changed in between.
LeftBehind ==
    LET rev(c) == [hash |-> contentHash(c), content |-> c, lines |-> Len(c)]
        A == <<"a", "b", "c">>
        B == <<"A", "b", "c">>
        reads(h) == [SCHEMA.session_reads EXCEPT ![<<"s1", "main", "/w/f">>] = h]
    IN  { [file_versions |-> SCHEMA.file_versions, session_reads |-> SCHEMA.session_reads],
          [file_versions |-> [SCHEMA.file_versions EXCEPT !["/w/f"] = << rev(A) >>],
           session_reads |-> reads(contentHash(A))],
          [file_versions |-> [SCHEMA.file_versions EXCEPT !["/w/f"] = << rev(A), rev(B) >>],
           session_reads |-> reads(contentHash(B))],
          [file_versions |-> [SCHEMA.file_versions EXCEPT !["/w/f"] = << rev(B), rev(A) >>],
           session_reads |-> reads(contentHash(A))] }

\* A store as a starting client finds it: a new database file (version 0,
\* no table), or a store that has been used, at any version, without the
\* table file_mtimes when it is older than version 7.  No client has run
\* init.
InitMigrate ==
    /\ disk = [p \in Paths |->
                 [exists |-> TRUE, content |-> <<"a", "b", "c">>, mtime |-> 1]]
    /\ branch = "main"
    /\ user_version \in Versions
    /\ \E used \in BOOLEAN, rows \in LeftBehind :
         /\ user_version # 0 => used
         /\ file_versions = IF used THEN rows.file_versions ELSE NoTable
         /\ session_reads = IF used THEN rows.session_reads ELSE NoTable
         /\ session_metrics = IF used THEN SCHEMA.session_metrics ELSE NoTable
         /\ session_stats = IF used THEN SCHEMA.session_stats ELSE NoTable
         /\ indexed_files = IF used THEN SCHEMA.indexed_files ELSE NoTable
         /\ file_mtimes = IF used /\ user_version >= 7 THEN SCHEMA.file_mtimes
                          ELSE NoTable
    /\ session_events = SCHEMA.session_events
    /\ stats = SCHEMA.stats
    /\ initialized = {}
    /\ inflight = [c \in Callers |-> Idle]
    /\ res = Call("open", "s1", "/w/f", undefined, undefined, TRUE, "ok")

\* init() of the client of a session returns: at once when the client has
\* run it before, else after its callback.
InitStore(session) ==
    /\ SetDb(IF session \in initialized THEN Db ELSE init(Db))
    /\ initialized' = initialized \cup {session}
    /\ res' = Call("init", session, "/w/f", undefined, undefined, TRUE, user_version)
    /\ UNCHANGED << disk, branch, inflight >>

\* Clients starting on a store that is there, and reading.
NextMigrate ==
    \/ \E s \in Sessions : InitStore(s)
    \/ \E s \in Sessions, p \in TrackedPaths :
         s \in initialized /\ ReadFile(s, p, FullRead)

SpecMigrate == InitMigrate /\ [][NextMigrate]_vars

(***************************************************************************)
(* CacheStore.withDb: the retry loop around a callback.  res holds the     *)
(* loop: the attempt, how often the callback has run, where the loop is    *)
(* ("try": about to open the database; "returned"; "thrown") and the value *)
(* returned or the message of the error thrown.                            *)
(***************************************************************************)
maxRetries == 10

\* e.message of the errors an attempt fails with; NoMessage is an error
\* without a message (e.message is undefined).
NoMessage == "undefined"
LockedMessages == { "database is locked", "database table is locked" }
Messages == LockedMessages
            \cup { "UNIQUE constraint failed: session_events.id", "disk I/O error",
                   NoMessage }

\* e.message?.includes("locked")
includesLocked(message) == message \in LockedMessages

\* A catch that allows one attempt more: attempt > maxRetries.
RetriesOnceMore(attempt, message) ==
    ~(attempt > maxRetries \/ ~includesLocked(message))

\* The catch of withDb falls through to the delay and the next attempt.
\* (It throws when attempt >= maxRetries || !e.message?.includes("locked").)
Retries(attempt, message) == ~(attempt >= maxRetries \/ ~includesLocked(message))

\* The loop of withDb as res holds it.
Loop(attempt, runs, at, value) ==
    [op |-> "withDb", attempt |-> attempt, runs |-> runs, at |-> at, value |-> value]

\* What fn(db) returns in a given attempt.
ResultOf(attempt) == "result of attempt " \o ToString(attempt)

\* The loop is about to make an attempt.
Trying == res.op = "withDb" /\ res.at = "try"

\* The catch block for an error with this message, the callback having run
\* runs times.
Catch(runs, message) ==
    /\ res' = IF Retries(res.attempt, message)
              THEN Loop(res.attempt + 1, runs, "try", message)
              ELSE Loop(res.attempt, runs, "thrown", message)
    /\ UNCHANGED << disk, branch, file_versions, session_reads, file_mtimes,
                    session_events, session_metrics, stats, session_stats,
                    indexed_files, user_version, initialized, inflight >>

\* withDb(fn) is called: attempt = 0.
WithDb ==
    /\ ~Trying
    /\ res' = Loop(0, 0, "try", NoMessage)
    /\ UNCHANGED << disk, branch, file_versions, session_reads, file_mtimes,
                    session_events, session_metrics, stats, session_stats,
                    indexed_files, user_version, initialized, inflight >>

\* new Database(dbPath) or the pragma throws: the callback is not run.
OpenThrows(message) ==
    /\ Trying
    /\ Catch(res.runs, message)

\* fn(db) throws (or its promise rejects); the connection is closed.
CallbackThrows(message) ==
    /\ Trying
    /\ Catch(res.runs + 1, message)

\* fn(db) returns; the connection is closed (db.close() is taken not to
\* throw) and withDb returns the value.
CallbackReturns ==
    /\ Trying
    /\ res' = Loop(res.attempt, res.runs + 1, "returned", ResultOf(res.attempt))
    /\ UNCHANGED << disk, branch, file_versions, session_reads, file_mtimes,
                    session_events, session_metrics, stats, session_stats,
                    indexed_files, user_version, initialized, inflight >>

\* Calls of withDb whose attempts fail or succeed in every way.
NextRetry ==
    \/ WithDb
    \/ \E message \in Messages : OpenThrows(message)
    \/ \E message \in Messages : CallbackThrows(message)
    \/ CallbackReturns

SpecRetry == Init /\ [][NextRetry]_vars

\* One client (session s1 on branch main) reading a file that is being
\* written, and the maintenance operations.
Next ==
    \/ \E p \in TrackedPaths, c \in Contents, m \in Mtimes : WriteFile(p, c, m)
    \/ \E p \in TrackedPaths, r \in Requests : ReadFile("s1", p, r)
    \/ \E p \in TrackedPaths : ReadFileFull("s1", p)
    \/ \E k \in KeepVersions : Prune(k)
    \/ WarmupFiles

Spec == Init /\ [][Next]_vars

\* One client reading whole files, with a third content and with revisions
\* pruned down to the newest.
NextPruned ==
    \/ \E p \in TrackedPaths, c \in MoreContents, m \in Mtimes : WriteFile(p, c, m)
    \/ \E p \in TrackedPaths : ReadFile("s1", p, FullRead)
    \/ Prune(1)
    \/ WarmupFiles

SpecPruned == Init /\ [][NextPruned]_vars

\* Two clients (sessions s1 and s2 on branch main) on one store.
NextSessions ==
    \/ \E p \in TrackedPaths, c \in Contents, m \in Mtimes : WriteFile(p, c, m)
    \/ \E s \in Sessions, p \in TrackedPaths, r \in Requests : ReadFile(s, p, r)

SpecSessions == Init /\ [][NextSessions]_vars

\* One client reading a file that may be missing.
NextMissing ==
    \/ \E p \in TrackedPaths, c \in Contents, m \in Mtimes : WriteFile(p, c, m)
    \/ \E p \in TrackedPaths : DeleteFile(p)
    \/ \E p \in TrackedPaths, r \in Requests : ReadFile("s1", p, r)
    \/ \E p \in TrackedPaths : ReadFileFull("s1", p)

SpecMissing == Init /\ [][NextMissing]_vars

\* One client whose calls may fail in a statement of the store.
NextFail ==
    \/ \E p \in TrackedPaths, c \in Contents, m \in Mtimes : WriteFile(p, c, m)
    \/ \E p \in TrackedPaths, r \in Requests : ReadFile("s1", p, r)
    \/ \E p \in TrackedPaths, r \in Requests : ReadFileThrows("s1", p, r)

SpecFail == Init /\ [][NextFail]_vars

\* The revision store under every operation that stores or deletes revisions:
\* whole-file reads, forced reads, listings by two clients, warmup and prune,
\* on a file that is being written.
NextStore ==
    \/ \E p \in TrackedPaths, c \in Contents, m \in Mtimes : WriteFile(p, c, m)
    \/ \E p \in TrackedPaths : ReadFile("s1", p, FullRead)
    \/ \E p \in TrackedPaths : ReadFileFull("s1", p)
    \/ \E s \in Sessions : ListDirectory(s)
    \/ \E k \in KeepVersions : Prune(k)
    \/ WarmupFiles

SpecStore == Init /\ [][NextStore]_vars

\* Pruning a store that holds up to three revisions of a file, its mtime row
\* and the read pointer of a client that has read the file once.
NextPrune ==
    \/ \E p \in TrackedPaths, c \in MoreContents, m \in Mtimes : WriteFile(p, c, m)
    \/ \E p \in TrackedPaths :
         session_reads[<<"s1", branch, p>>] = NoHash /\ ReadFile("s1", p, FullRead)
    \/ \E k \in KeepVersions : Prune(k)
    \/ WarmupFiles

SpecPrune == Init /\ [][NextPrune]_vars

\* One client that reads every content a file goes through, and reverts it.
NextRevert ==
    \/ \E p \in TrackedPaths, c \in MoreContents, m \in Mtimes : WriteRead("s1", p, c, m)
    \/ \E p \in TrackedPaths : ReadWhole("s1", p)
    \/ \E p \in TrackedPaths, n \in StepsBack, m \in Mtimes, w \in BOOLEAN :
         RevertFile("s1", p, n, m, w)

SpecRevert == Init /\ [][NextRevert]_vars

\* Two clients listing a directory whose only file comes and goes, with the
\* revisions pruned down to the newest.
NextDir ==
    \/ \E p \in TrackedPaths : DeleteFile(p)
    \/ \E p \in TrackedPaths : ~disk[p].exists /\ WriteFile(p, << "a", "b", "c" >>, 1)
    \/ \E s \in Sessions : ListFollowed(s)
    \/ Prune(1)

SpecDir == Init /\ [][NextDir]_vars

\* Two callers whose calls overlap, on a file that is written once and warmed
\* up between calls; nothing is pruned, cleared or forgotten.
NextConcurrent ==
    \/ \E p \in TrackedPaths :
         disk[p].content = << "a", "b", "c" >> /\ WriteFile(p, << "A", "b", "c" >>, 2)
    \/ (\A c \in Callers : inflight[c].phase # "running") /\ WarmupFiles
    \/ \E c \in Callers, s \in Sessions, p \in TrackedPaths, r \in Requests :
         Turn(c, s) /\ StartReadFile(c, s, p, r)
    \/ \E c \in Callers, s \in Sessions, p \in TrackedPaths :
         Turn(c, s) /\ StartReadFileFull(c, s, p)
    \/ \E c \in Callers, s \in Sessions : Turn(c, s) /\ StartListDirectory(c, s)
    \/ \E c \in Callers, s \in Sessions, p \in TrackedPaths, n \in StepsBack :
         Turn(c, s) /\ StartRevertFile(c, s, p, n)
    \/ \E c \in Callers, m \in Mtimes :
         (inflight[c].write = NoText => m = 1) /\ Commit(c, m)
    \/ \E c \in Callers : Return(c)

SpecConcurrent == Init /\ [][NextConcurrent]_vars

\* The values read_file passes for offset and for limit (z.number().optional()):
\* absent, zero, inside the file and past its end.
Offsets == {undefined, 0, 1, 2, 4}
Limits == {undefined, 0, 1, 2, 5}

\* A client's first read of a file that is being written, for every pair of
\* offset and limit.
NextRanges ==
    \/ \E p \in TrackedPaths, c \in Contents, m \in Mtimes : WriteFile(p, c, m)
    \/ \E p \in TrackedPaths, offset \in Offsets, limit \in Limits :
         /\ session_reads[<<"s1", branch, p>>] = NoHash
         /\ ReadFile("s1", p, << offset, limit >>)

SpecRanges == Init /\ [][NextRanges]_vars

(***************************************************************************)
(* The answer of readFile for a long diff: the file "a\nb\nc" with n lines *)
(* "x" added at its end, read by a client that had read the three lines.   *)
(***************************************************************************)
\* The file with n lines added at its end.
Long(n) == << "a", "b", "c" >> \o [k \in 1 .. n |-> "x"]

\* computeDiff("a\nb\nc", Long(n), "f") for n >= 1: one hunk of the three
\* kept lines and the n added ones.
LongDiff(n) ==
    [diff |-> << "--- a/f", "+++ b/f",
                 "@@ -1,3 +1," \o ToString(3 + n) \o " @@", " a", " b", " c" >>
              \o [k \in 1 .. n |-> "+x"],
     linesChanged |-> n, hasChanges |-> TRUE, changedNewLines |-> 4 .. 3 + n]

\* The numbers of added lines: from one to past the cut.
Tails == 1 .. MAX_DIFF_LINES + MaxLines

\* readFile answers with the diff of n added lines (cache.ts l.444-453); one
\* answer is followed.
AnswerDiff(n, req) ==
    /\ res.op # "diffAnswer"
    /\ res' = [op |-> "diffAnswer", added |-> n, offset |-> req[1], limit |-> req[2],
               diffResult |-> LongDiff(n),
               value |-> DiffAnswer([hash |-> contentHash(Long(n)), content |-> Long(n),
                                     lines |-> 3 + n],
                                    LongDiff(n), req[1], req[2])]
    /\ UNCHANGED << disk, branch, file_versions, session_reads, file_mtimes,
                    session_events, session_metrics, stats, session_stats,
                    indexed_files, user_version, initialized, inflight >>

NextLong == \E n \in Tails, r \in Requests : AnswerDiff(n, r)

SpecLong == Init /\ [][NextLong]_vars

(***************************************************************************)
(* The claims.                                                             *)
(***************************************************************************)
\* The read pointer of session s on the current branch for path p.
Pointer(s, p) == session_reads[<<s, branch, p>>]

\* The hash of the file as it is on disk.
DiskHash(p) == contentHash(disk[p].content)

\* The revision (p, h) is stored.
Stored(p, h) == SelectVersion(Db, p, h) # {}

\* The last call was a readFile of p by s on the current branch that returned.
LastReadBy(s, p) ==
    /\ res.op = "readFile"
    /\ res.ok
    /\ res.session = s
    /\ res.path = p
    /\ res.branch = branch

\* C1 (idempotence): a readFile by a session that has no pointer for the file
\* returns cached = false, and a readFile that follows a readFile of the same
\* session, the content of the file being what it was at that earlier call,
\* returns cached = true with linesChanged = 0.
C1_Idempotence ==
    [][ \A p \in TrackedPaths, r \in Requests :
          (ReadFile("s1", p, r) /\ res'.ok) =>
             /\ Pointer("s1", p) = NoHash => ~res'.value.cached
             /\ (LastReadBy("s1", p) /\ res.file.content = disk[p].content) =>
                   (res'.value.cached /\ res'.value.linesChanged = 0) ]_vars

\* C2 (first read): a readFile by a session with no pointer for the file
\* returns cached = false with the content of the file as it is (or the
\* requested lines of it), and afterwards the revision with the returned hash
\* is stored and the pointer equals the returned hash.
C2_FirstRead ==
    [][ \A p \in TrackedPaths, r \in Requests :
          (ReadFile("s1", p, r) /\ res'.ok /\ Pointer("s1", p) = NoHash) =>
             /\ ~res'.value.cached
             /\ res'.value.content = sliceLines(disk[p].content, r[1], r[2])
             /\ SelectVersion(Db', p, res'.value.hash) # {}
             /\ session_reads'[<<"s1", branch, p>>] = res'.value.hash ]_vars

\* What session s would get from readFile(p, r) on store db if the file p were
\* f: the pair (cached, linesChanged).
Outcome(db, s, p, f, r) ==
    LET run == readFile(db, [disk EXCEPT ![p] = f], branch, s, p, r[1], r[2],
                        "read_file")
    IN  << run.result.cached, run.result.linesChanged >>

\* C3 (session isolation): a first readFile by session s2 returns cached =
\* false, and no readFile by s2 changes what s1 gets: whatever the file is
\* when s1 reads next, s1's (cached, linesChanged) is the same on the store
\* after s2's call as on the store before it.
C3_SessionIsolation ==
    [][ \A p \in TrackedPaths, r \in Requests :
          (ReadFile("s2", p, r) /\ res'.ok) =>
             /\ Pointer("s2", p) = NoHash => ~res'.value.cached
             /\ \A q \in TrackedPaths, c \in Contents, m \in Mtimes, rq \in Requests :
                   LET f == [exists |-> TRUE, content |-> c, mtime |-> m]
                   IN  Outcome(Db', "s1", q, f, rq) = Outcome(Db, "s1", q, f, rq) ]_vars

\* The content of the stored revision (p, h).
Revision(p, h) == (CHOOSE v \in SelectVersion(Db, p, h) : TRUE).content

\* The file p differs from the revision session s last saw, which is stored.
ChangedSince(s, p) ==
    /\ Pointer(s, p) # NoHash
    /\ Pointer(s, p) # DiskHash(p)
    /\ Stored(p, Pointer(s, p))

\* C4 (changed file, full read): a readFile without offset and limit of a file
\* whose hash differs from the pointer's, the pointer's revision being stored,
\* returns cached = true, the unified diff from that revision to the content
\* of the file, and the diff's count of added and removed lines, which is
\* positive.
C4_ChangedFullRead ==
    [][ \A p \in TrackedPaths :
          (ReadFile("s1", p, FullRead) /\ res'.ok /\ ChangedSince("s1", p)) =>
             LET d == computeDiff(Revision(p, Pointer("s1", p)), disk[p].content, p)
             IN  /\ res'.value.cached
                 /\ res'.value.diff = d.diff
                 /\ res'.value.content = d.diff
                 /\ res'.value.linesChanged = d.linesChanged
                 /\ res'.value.linesChanged > 0 ]_vars

\* The lines [start, end] a request with offset or limit asks for.
RangeOf(r, totalLines) ==
    LET start == IF r[1] > 0 THEN r[1] ELSE 1
    IN  start .. (IF r[2] > 0 THEN start + r[2] - 1 ELSE totalLines)

\* The new-file line numbers that changed between the revision session s last
\* saw and the file p.
ChangedLines(s, p) ==
    computeDiff(Revision(p, Pointer(s, p)), disk[p].content, p).changedNewLines

\* The text is one line that starts with "[unchanged".
IsConfirmation(text) ==
    /\ Len(text) = 1
    /\ Len(text[1]) >= 10
    /\ SubSeq(text[1], 1, 10) = "[unchanged"

\* C5 (range read, changes outside the range): a readFile of lines
\* [start, end] of a changed file, no changed line number being in the range,
\* returns cached = true, linesChanged = 0 and an 'unchanged' confirmation.
C5_RangeUnchanged ==
    [][ \A p \in TrackedPaths, r \in Requests :
          (/\ ReadFile("s1", p, r) /\ res'.ok
           /\ isPartial(r[1], r[2])
           /\ ChangedSince("s1", p)
           /\ ChangedLines("s1", p) \cap RangeOf(r, Len(disk[p].content)) = {}) =>
             /\ res'.value.cached
             /\ res'.value.linesChanged = 0
             /\ IsConfirmation(res'.value.content) ]_vars

\* C6 (range read, changes inside the range): a readFile of lines
\* [start, end] of a changed file, a changed line number being in the range,
\* returns cached = false and those lines of the file, not a diff.
C6_RangeChanged ==
    [][ \A p \in TrackedPaths, r \in Requests :
          (/\ ReadFile("s1", p, r) /\ res'.ok
           /\ isPartial(r[1], r[2])
           /\ ChangedSince("s1", p)
           /\ ChangedLines("s1", p) \cap RangeOf(r, Len(disk[p].content)) # {}) =>
             /\ ~res'.value.cached
             /\ res'.value.content = sliceLines(disk[p].content, r[1], r[2])
             /\ res'.value.diff = NoText ]_vars

\* The store with an empty mtime index: readFile on it reads and hashes the
\* file.
WithoutMtimes(db) == [db EXCEPT !.file_mtimes = [p \in Paths |-> NoEntry]]

\* What readFile answers: the triple (cached, content, hash).
Answer(db, s, p, r) ==
    LET run == readFile(db, disk, branch, s, p, r[1], r[2], "read_file")
    IN  << run.result.cached, run.result.content, run.result.hash >>

\* C7 (the mtime index never changes an answer): in every reachable state,
\* what readFile answers for a file that is there is what it answers when it
\* reads and hashes the file.
C7_MtimeTransparent ==
    \A s \in Sessions, p \in TrackedPaths, r \in Requests :
       disk[p].exists => Answer(Db, s, p, r) = Answer(WithoutMtimes(Db), s, p, r)

\* C8 (all-or-nothing calls): a readFile that fails in a statement of the
\* store leaves the store as it was before the call.
C8_AllOrNothing ==
    [][ \A p \in TrackedPaths, r \in Requests :
          ReadFileThrows("s1", p, r) => Db' = Db ]_vars

\* C9 (NotFound): readFile and readFileFull of a path that is not there fail,
\* and revisions, pointers, the mtime index, events and metrics stay as they
\* are.
C9_NotFound ==
    [][ \A p \in TrackedPaths :
          (/\ ~disk[p].exists
           /\ \/ \E r \in Requests : ReadFile("s1", p, r)
              \/ ReadFileFull("s1", p)) =>
             /\ ~res'.ok
             /\ res'.path = p
             /\ Db' = Db ]_vars

\* C9's case: a call on a missing file has failed, on a store that holds a
\* revision, a pointer and an mtime row for the path.
C9_Witness ==
    /\ res.op \in {"readFile", "readFileFull"}
    /\ ~res.ok
    /\ res.value = "ENOENT"
    /\ ~disk[res.path].exists
    /\ file_versions[res.path] # << >>
    /\ Pointer("s1", res.path) # NoHash
    /\ file_mtimes[res.path] # NoEntry

\* C10 (stale reference): a readFile of a changed file by a session whose
\* pointer names a revision that is no longer stored returns cached = false
\* with the content of the file and no diff, and afterwards the revision of
\* the file is stored and the pointer is its hash.
C10_StaleReference ==
    [][ \A p \in TrackedPaths :
          (/\ ReadFile("s1", p, FullRead) /\ res'.ok
           /\ Pointer("s1", p) # NoHash
           /\ ~Stored(p, Pointer("s1", p))
           /\ Pointer("s1", p) # DiskHash(p)) =>
             /\ ~res'.value.cached
             /\ res'.value.content = disk[p].content
             /\ res'.value.diff = NoText
             /\ SelectVersion(Db', p, DiskHash(p)) # {}
             /\ session_reads'[<<"s1", branch, p>>] = DiskHash(p) ]_vars

\* The hashes of the revisions revs, in the order of their creation.
Hashes(revs) == [i \in DOMAIN revs |-> revs[i].hash]

\* revs is a prefix of more.
IsPrefix(revs, more) == Len(revs) <= Len(more) /\ SubSeq(more, 1, Len(revs)) = revs

\* The step is the call op: every call leaves the files alone and records
\* itself in res, and every write to a file changes the file.
Called(op) == disk' = disk /\ res'.op = op

\* The step is a call that stores the revision (p, h): a readFile or a
\* readFileFull of p that returned h, a listing with hash h (p being the
\* key of the directory), or a warmup while the file p holds h.
Stores(p, h) ==
    \/ /\ Called("readFile") \/ Called("readFileFull")
       /\ res'.path = p /\ res'.ok /\ res'.value.hash = h
    \/ /\ Called("listDirectory")
       /\ p \in DirKeys /\ res'.value.hash = h
    \/ /\ Called("warmupFiles")
       /\ p \in TrackedPaths /\ disk[p].exists /\ DiskHash(p) = h

\* C11 (content addressing): at most one revision is stored per (path,
\* hash); a readFile, readFileFull, listDirectory or warmup that stores a
\* (path, hash) that is already there changes no revision; and no step
\* modifies the content, the line count or the creation time (the place in
\* the order of creation) of a stored revision: a storing call only adds
\* behind the revisions that are there, and prune only deletes.
C11_ContentAddressed ==
    [][ \A p \in StorePaths :
          /\ \A i, j \in DOMAIN file_versions'[p] :
                file_versions'[p][i].hash = file_versions'[p][j].hash => i = j
          /\ \A h \in { file_versions[p][i].hash : i \in DOMAIN file_versions[p] } :
                Stores(p, h) => file_versions' = file_versions
          /\ IF Called("prune")
             THEN \E n \in 0 .. Len(file_versions[p]) :
                    file_versions'[p] = SubSeq(file_versions[p], n + 1,
                                               Len(file_versions[p]))
             ELSE IsPrefix(file_versions[p], file_versions'[p]) ]_vars

\* C11's case: a forced read has stored the revision of a file a second time
\* (both calls logged the same hash), a second client has listed the
\* directory that was listed before, and one revision of each is stored.
C11_Witness ==
    /\ \E p \in TrackedPaths :
          /\ res.op = "readFileFull" /\ res.ok /\ res.path = p
          /\ Len(session_events) = 2
          /\ session_events[1].path = p
          /\ session_events[1].hash = session_events[2].hash
          /\ Len(file_versions[p]) = 1
          /\ file_versions[p][1].hash = res.value.hash

\* C11's case for a listing: session s2 has listed the directory whose
\* listing session s1 had stored, and the one revision is still the only one.
C11_ListedTwice ==
    \E k \in DirKeys :
      /\ res.op = "listDirectory" /\ res.session = "s2" /\ ~res.value.cached
      /\ session_reads[<<"s1", branch, k>>] = res.value.hash
      /\ session_reads[<<"s2", branch, k>>] = res.value.hash
      /\ Hashes(file_versions[k]) = << res.value.hash >>

\* The number of revisions stored, over all paths.
Revisions(fv) ==
    LET RECURSIVE Sum(_)
        Sum(P) == IF P = {} THEN 0
                  ELSE LET p == CHOOSE x \in P : TRUE
                       IN  Len(fv[p]) + Sum(P \ {p})
    IN  Sum(DOMAIN fv)

\* C12 (prune): after prune(k) every path has at most k revisions, which are
\* the min(k, n) newest of the n it had; the number returned is the number of
\* revisions deleted; the read pointers and the mtime rows are as before;
\* and a prune(k) that follows at once would delete nothing and return 0.
C12_Prune ==
    [][ \A k \in KeepVersions :
          Prune(k) =>
            /\ \A p \in StorePaths :
                  LET n == Len(file_versions[p])
                      m == Len(file_versions'[p])
                  IN  /\ m <= k
                      /\ m = Min(k, n)
                      /\ \A i \in 1 .. m : file_versions'[p][i] = file_versions[p][n - m + i]
            /\ res'.value = Revisions(file_versions) - Revisions(file_versions')
            /\ session_reads' = session_reads
            /\ file_mtimes' = file_mtimes
            /\ prune(Db', k).changes = 0
            /\ prune(Db', k).db = Db' ]_vars

\* C12's case: prune(1) has deleted the two oldest of three revisions of a
\* file that has an mtime row and that session s1 has read.
C12_Witness ==
    \E p \in TrackedPaths :
      /\ res.op = "prune"
      /\ res.value = 2
      /\ Len(file_versions[p]) = 1
      /\ file_mtimes[p] # NoEntry
      /\ Pointer("s1", p) # NoHash

\* C13 (revertFile with insufficient history): a revertFile of a path with
\* fewer than stepsBack + 1 revisions reports failure, and the file, the
\* revisions, the read pointers and the event log are as before.
C13_InsufficientHistory ==
    [][ \A p \in TrackedPaths, n \in StepsBack, m \in Mtimes, w \in BOOLEAN :
          (RevertFile("s1", p, n, m, w) /\ Len(file_versions[p]) < n + 1) =>
            /\ ~res'.value.success
            /\ disk' = disk
            /\ file_versions' = file_versions
            /\ session_reads' = session_reads
            /\ session_events' = session_events ]_vars

\* C13's case: a revertFile two steps back has failed on a file with two
\* revisions, both read by the session.
C13_Witness ==
    \E p \in TrackedPaths :
      /\ res.op = "revertFile" /\ res.path = p /\ res.offset = 2
      /\ ~res.value.success
      /\ res.value.message = "Only found 2 versions."
      /\ Len(file_versions[p]) = 2
      /\ Pointer("s1", p) # NoHash
      /\ Len(session_events) = 2

\* The events of session s on path p, oldest first.
EventsOf(s, p) ==
    SelectSeq(session_events, LAMBDA e : e.session_id = s /\ e.path = p)

\* What the session read of p before its most recent change: the content of
\* the last revision it read that is not the content of the file.  (The hash
\* of an event is the digest of the content that was read.)
BeforeLastChange(s, p) ==
    LET others == SelectSeq(EventsOf(s, p), LAMBDA e : e.hash # DiskHash(p))
    IN  others[Len(others)].hash[2]

\* The last call of session s was a readFile of p that gave it the file as it
\* is, and the session has read an earlier content of it.
ReadThrough(s, p) ==
    /\ LastReadBy(s, p)
    /\ Pointer(s, p) = DiskHash(p)
    /\ \E i \in DOMAIN EventsOf(s, p) : EventsOf(s, p)[i].hash # DiskHash(p)

\* C14 (revert_file restores the pre-edit state): when the session has read
\* every content the file went through, a successful revertFile one step
\* back leaves the file with the content it had before its most recent
\* change.
C14_RestoresPreEdit ==
    [][ \A p \in TrackedPaths, m \in Mtimes :
          (/\ RevertFile("s1", p, 1, m, TRUE)
           /\ res'.value.success
           /\ ReadThrough("s1", p)) =>
             disk'[p].content = BeforeLastChange("s1", p) ]_vars

\* C15 (bounded retry): withDb runs its callback at most maxRetries + 1 = 11
\* times, in the attempts 0 to 10; after a failed attempt it makes another
\* one only when the message contains "locked" and the attempt was not the
\* last, and otherwise it throws that error at once; when the callback
\* returns, withDb returns the value of that attempt; and once it has
\* returned or thrown it makes no further attempt.
C15_BoundedRetry ==
    [][ /\ res'.op = "withDb" => res'.attempt \in 0 .. 10 /\ res'.runs <= 11
        /\ \A message \in Messages :
              (OpenThrows(message) \/ CallbackThrows(message)) =>
                IF includesLocked(message) /\ res.attempt < 10
                THEN res'.at = "try" /\ res'.attempt = res.attempt + 1
                ELSE res'.at = "thrown" /\ res'.value = message
                     /\ res'.attempt = res.attempt
        /\ CallbackReturns =>
              /\ res'.at = "returned"
              /\ res'.value = ResultOf(res.attempt)
              /\ res'.attempt = res.attempt
        /\ (res.op = "withDb" /\ res.at \in {"returned", "thrown"}) =>
              res'.attempt = 0 /\ res'.runs = 0 ]_vars

\* C15's case: the callback has failed with "locked" in ten attempts and the
\* eleventh has failed with it too, and withDb has thrown it.
C15_Witness ==
    /\ res.op = "withDb"
    /\ res.at = "thrown"
    /\ res.attempt = 10
    /\ res.runs = 11
    /\ includesLocked(res.value)

\* C16 (non-destructive migration): an init by a new client on a store whose
\* schema version is at most the current one leaves every revision and every
\* read pointer in place and sets user_version to the current version; and
\* an init after it, by the same client or by another, changes nothing in
\* the store.
C16_NonDestructive ==
    [][ \A s \in Sessions :
          (/\ InitStore(s)
           /\ s \notin initialized
           /\ user_version <= CURRENT_SCHEMA_VERSION) =>
             /\ \A p \in DOMAIN file_versions : file_versions'[p] = file_versions[p]
             /\ \A k \in DOMAIN session_reads : session_reads'[k] = session_reads[k]
             /\ user_version' = CURRENT_SCHEMA_VERSION
             /\ init(Db') = Db'
             /\ s \in initialized' ]_vars

\* C16's case: a client has run init on a store of version 3 that held two
\* revisions of a file and a read pointer, and they are there at version 7.
C16_Witness ==
    /\ res.op = "init"
    /\ res.value = 3
    /\ user_version = CURRENT_SCHEMA_VERSION
    /\ Len(file_versions["/w/f"]) = 2
    /\ session_reads[<<"s1", "main", "/w/f">>] # NoHash
    /\ session_events = << >>

\* The hunks computeDiff formats: the groups of entries of rawLines.
HunksOf(oldContent, newContent) ==
    LET raw == RawLines(oldContent, newContent, diff(oldContent, newContent), 1, 0, 0)
    IN  IF LinesChanged(raw) = 0 THEN << >>
        ELSE HunkGroups(raw, 0, << >>, << >>, NoChangeIdx)

\* What the header of a hunk says, read back from "@@ -s,n +s,n @@".
HunkHeader(hunk) ==
    [oldStart |-> hunk[1].oldLine,
     oldCount |-> Cardinality({ k \in DOMAIN hunk : hunk[k].type # "add" }),
     newStart |-> hunk[1].newLine,
     newCount |-> Cardinality({ k \in DOMAIN hunk : hunk[k].type # "remove" })]

RECURSIVE ApplyHunk(_, _, _, _)
\* The lines k.. of a hunk applied to old from line pos on: whether they
\* apply (a ' ' or '-' line must be the line of old it stands for), the
\* lines put out and the next line of old.
ApplyHunk(hunk, k, old, pos) ==
    IF k > Len(hunk) THEN [ok |-> TRUE, out |-> << >>, pos |-> pos]
    ELSE IF hunk[k].type = "add"
    THEN LET rest == ApplyHunk(hunk, k + 1, old, pos)
         IN  [ok |-> rest.ok, out |-> << hunk[k].line >> \o rest.out, pos |-> rest.pos]
    ELSE IF pos > Len(old) \/ old[pos] # hunk[k].line
    THEN [ok |-> FALSE, out |-> << >>, pos |-> pos]
    ELSE LET rest == ApplyHunk(hunk, k + 1, old, pos + 1)
         IN  [ok  |-> rest.ok,
              out |-> (IF hunk[k].type = "keep" THEN << hunk[k].line >> ELSE << >>)
                      \o rest.out,
              pos |-> rest.pos]

RECURSIVE Patch(_, _, _, _)
\* The hunks g.. applied to old from line pos on, as patch does: the lines
\* before a hunk's old start are copied, the hunk is applied at its start
\* and must take as many old lines as its header counts, and the lines behind
\* the last hunk are copied.
Patch(old, hunks, g, pos) ==
    IF g > Len(hunks) THEN [ok |-> TRUE, out |-> SubSeq(old, pos, Len(old))]
    ELSE LET header == HunkHeader(hunks[g])
             done   == ApplyHunk(hunks[g], 1, old, header.oldStart)
             rest   == Patch(old, hunks, g + 1, done.pos)
         IN  IF header.oldStart < pos \/ ~done.ok
                \/ done.pos # header.oldStart + header.oldCount
             THEN [ok |-> FALSE, out |-> << >>]
             ELSE [ok  |-> rest.ok,
                   out |-> SubSeq(old, pos, header.oldStart - 1) \o done.out
                           \o rest.out]

\* C17 (diff round-trip): the hunks of computeDiff(old, new), applied to old
\* by their headers and their ' ', '+' and '-' lines, give new.
C17_RoundTrip ==
    res.op = "computeDiff" =>
      LET hunks == HunksOf(res.oldContent, res.newContent)
      IN  /\ res.value.hasChanges =>
                res.value.diff = << "--- a/f", "+++ b/f" >> \o FormatHunks(hunks, 1)
          /\ Patch(res.oldContent, hunks, 1, 1) = [ok |-> TRUE, out |-> res.newContent]

\* computeDiff has been called with the texts of the scenario.
DiffScenario ==
    /\ res.op = "computeDiff"
    /\ res.oldContent = ScenarioOld
    /\ res.newContent = ScenarioNew

\* C18 (diff scenario) as the claim states it: computeDiff of "a\nb\nc\n" and
\* "a\nB\nc\nd\n" reports 2 changed lines and hasChanges = true.
C18_TwoChangedLines ==
    DiffScenario => res.value.linesChanged = 2 /\ res.value.hasChanges

\* C18 (diff scenario), amended: computeDiff of "a\nb\nc\n" and
\* "a\nB\nc\nd\n" reports 3 changed lines, the lines added plus the lines
\* removed ("b" removed, "B" and "d" added), and hasChanges = true.
C18_DiffScenario ==
    DiffScenario =>
      /\ res.value.linesChanged = 3
      /\ res.value.hasChanges
      /\ res.value.diff = << "--- a/f", "+++ b/f", "@@ -1,4 +1,5 @@",
                             " a", "-b", "+B", " c", "+d", " " >>

\* C18's case: computeDiff has returned for the texts of the scenario.
C18_Witness == DiffScenario /\ res.value.changedNewLines = {2, 4}

\* Session s has read path p on branch br: the log has an event of it.
HasReadOn(s, br, p) ==
    \E i \in DOMAIN session_events :
      /\ session_events[i].session_id = s
      /\ session_events[i].branch = br
      /\ session_events[i].path = p

\* The store db without the read pointers of the branches other than br.
OnlyBranch(db, br) ==
    [db EXCEPT !.session_reads =
        [k \in DOMAIN @ |-> IF k[2] = br THEN @[k] ELSE NoHash]]

\* C19 (branch partition): a readFile by session s1 on the current branch of
\* a path that it has read on another branch b1 only returns cached = false
\* and leaves the pointer of (s1, b1, path) as it was; and what a readFile on
\* any branch answers afterwards does not depend on the pointers of the
\* other branches: on b1 it is compared with what s1 last saw on b1.
C19_BranchPartition ==
    [][ \A p \in TrackedPaths, r \in Requests, b1 \in Branches \ {branch} :
          (/\ ReadFile("s1", p, r) /\ res'.ok
           /\ HasReadOn("s1", b1, p)
           /\ ~HasReadOn("s1", branch, p)) =>
             /\ ~res'.value.cached
             /\ session_reads'[<<"s1", b1, p>>] = session_reads[<<"s1", b1, p>>]
             /\ session_reads'[<<"s1", b1, p>>] # NoHash
             /\ \A br \in Branches, rq \in Requests :
                   readFile(Db', disk, br, "s1", p, rq[1], rq[2], "read_file").result
                   = readFile(OnlyBranch(Db', br), disk, br, "s1", p, rq[1], rq[2],
                              "read_file").result ]_vars

\* C19's case: session s1 has read the file on main, the file has changed,
\* and s1 has read it on dev: the two pointers differ.
C19_Witness ==
    \E p \in TrackedPaths :
      /\ res.op = "readFile" /\ res.ok /\ res.branch = "dev" /\ res.path = p
      /\ Len(session_events) = 2
      /\ session_events[1].branch = "main"
      /\ session_events[2].branch = "dev"
      /\ session_reads[<<"s1", "main", p>>] # NoHash
      /\ session_reads[<<"s1", "dev", p>>] # NoHash
      /\ session_reads[<<"s1", "main", p>>] # session_reads[<<"s1", "dev", p>>]

\* C20 (forced read): a readFileFull returns cached = false with the whole
\* content of the file as it is on disk, whatever the pointer was; afterwards
\* the pointer of the session is the hash of the file, the revision with that
\* hash is stored with the content of the file, and the mtime row holds that
\* hash and the file's modification time; so a readFile that follows at once,
\* the content being the same (whatever the range, and whether or not the
\* modification time is the same), returns cached = true and linesChanged = 0.
C20_ForcedRead ==
    [][ \A p \in TrackedPaths :
          (ReadFileFull("s1", p) /\ res'.ok) =>
            /\ ~res'.value.cached
            /\ res'.value.content = disk[p].content
            /\ res'.value.hash = DiskHash(p)
            /\ session_reads'[<<"s1", branch, p>>] = DiskHash(p)
            /\ \E v \in SelectVersion(Db', p, DiskHash(p)) : v.content = disk[p].content
            /\ file_mtimes'[p] = [hash |-> DiskHash(p), mtime_ms |-> disk[p].mtime]
            /\ \A r \in Requests, m \in Mtimes :
                  LET next == readFile(Db', [disk EXCEPT ![p].mtime = m], branch, "s1", p,
                                       r[1], r[2], "read_file")
                  IN  /\ next.ok
                      /\ next.result.cached
                      /\ next.result.linesChanged = 0 ]_vars

\* C20's case: session s1 had read the file, the file has changed, and a
\* readFileFull has returned the new content and moved the pointer to it.
C20_Witness ==
    \E p \in TrackedPaths :
      /\ res.op = "readFileFull" /\ res.ok /\ res.path = p
      /\ Len(session_events) = 2
      /\ session_events[1].path = p
      /\ session_events[1].hash # session_events[2].hash
      /\ Pointer("s1", p) = DiskHash(p)
      /\ Len(file_versions[p]) = 2

\* The listing of Dir as listDirectory joins it.
Listing == Join(walk(disk))

\* The read pointer of session s on the current branch for the listing of Dir.
DirPointer(s) == session_reads[<<s, branch, Dir \o "/">>]

ObservedMismatch(p) ==
    /\ Called("readFile")
    /\ res'.ok
    /\ res'.path = p
    /\ Pointer("s1", p) # NoHash
    /\ Pointer("s1", p) # res'.value.hash

C24_PointerImpliesRevision ==
    \A s \in Sessions, br \in Branches, p \in StorePaths :
      session_reads[<<s, br, p>>] # NoHash =>
        SelectVersion(Db, p, session_reads[<<s, br, p>>]) # {}

\* C24's case: two calls are in withDb at once; the listDirectory of session
\* s1 has stored the listing and not yet set its pointer, the readFile of
\* session s2 has committed all its statements, the pointer last.
C24_Witness ==
    /\ \A c \in Callers : inflight[c].phase = "running"
    /\ inflight["c1"].op = "listDirectory"
    /\ Len(inflight["c1"].stmts) = 1
    /\ DirPointer("s1") = NoHash
    /\ Len(file_versions[Dir \o "/"]) = 1
    /\ inflight["c2"].op = "readFile"
    /\ inflight["c2"].session = "s2"
    /\ inflight["c2"].stmts = << >>
    /\ Pointer("s2", "/w/f") = DiskHash("/w/f")

\* C25 (per-key serialisation): when two readFile calls of one session for
\* the file, which the session had no pointer for and which has not changed,
\* have both returned, exactly one of them has returned cached = false (the
\* other found the pointer the first had set), and the pointer is at the
\* hash of the file.
C25_PerKeySerialisation ==
    \A s \in Sessions, p \in TrackedPaths :
      ( /\ \A c \in Callers :
             /\ inflight[c].phase = "returned"
             /\ inflight[c].op = "readFile"
             /\ inflight[c].session = s
             /\ inflight[c].path = p
        /\ disk[p] = [exists |-> TRUE, content |-> << "a", "b", "c" >>, mtime |-> 1] )
      => /\ Cardinality({ c \in Callers : ~inflight[c].result.cached }) = 1
         /\ Pointer(s, p) = DiskHash(p)

\* Caller c's call commits a statement in this step.
Commits(c) ==
    /\ inflight[c].phase = "running"
    /\ inflight[c].stmts # << >>
    /\ inflight'[c].stmts = Tail(inflight[c].stmts)

\* C26 (frame): a statement of a readFile, readFileFull, listDirectory or
\* revertFile call of session s leaves every pointer of the other session as
\* it was, whether there was none or one.
C26_PointerFrame ==
    [][ \A c \in Callers :
          Commits(c) =>
            \A s \in Sessions \ {inflight[c].session}, br \in Branches, p \in StorePaths :
              session_reads'[<<s, br, p>>] = session_reads[<<s, br, p>>] ]_vars

\* C26's case: session s1 holds pointers for the file and for the listing,
\* and a revertFile of session s2 has just set the pointer of s2 for the file
\* to another revision.
C26_Witness ==
    /\ Pointer("s1", "/w/f") # NoHash
    /\ inflight["c2"].phase = "running"
    /\ inflight["c2"].op = "revertFile"
    /\ inflight["c2"].session = "s2"
    /\ inflight["c2"].stmts = << >>
    /\ Pointer("s2", "/w/f") # NoHash
    /\ Pointer("s2", "/w/f") # Pointer("s1", "/w/f")

\* The lines of text the claim selects for offset and limit.
Selected(text, offset, limit) ==
    IF ~(offset > 0) /\ ~(limit > 0) THEN text
    ELSE LET start == IF offset > 0 THEN offset ELSE 1
             end   == IF limit > 0 THEN start + limit - 1 ELSE Len(text)
             last  == Min(end, Len(text))
         IN  IF start > last THEN << "" >> ELSE SubSeq(text, start, last)

\* C27 (range selection): a first readFile returns the whole file when offset
\* and limit are both absent or zero, and otherwise the lines start to
\* min(end, totalLines), where start is offset if offset > 0 and 1 if not,
\* and end is start + limit - 1 if limit > 0 and totalLines if not.
C27_RangeSelection ==
    [][ \A p \in TrackedPaths :
          (Called("readFile") /\ res'.ok /\ res'.path = p /\ Pointer("s1", p) = NoHash) =>
            /\ ~res'.value.cached
            /\ res'.value.content = Selected(disk[p].content, res'.offset, res'.limit)
      ]_vars

\* C27 for every pair but offset = 0 with a limit: the selection holds.
C27_RangeSelectionOffsetGiven ==
    [][ \A p \in TrackedPaths :
          ( /\ Called("readFile") /\ res'.ok /\ res'.path = p
            /\ Pointer("s1", p) = NoHash
            /\ ~(res'.offset = 0 /\ res'.limit > 0) ) =>
            /\ ~res'.value.cached
            /\ res'.value.content = Selected(disk[p].content, res'.offset, res'.limit)
      ]_vars

\* rawLines of computeDiff(oldContent, newContent): the edit script.
RawOf(oldContent, newContent) ==
    RawLines(oldContent, newContent, diff(oldContent, newContent), 1, 0, 0)

\* The position in the edit script raw of an entry of a hunk.
PositionIn(raw, entry) == CHOOSE k \in DOMAIN raw : raw[k] = entry

\* The positions in raw of the entries of hunk, in the hunk's order.
Positions(raw, hunk) == [k \in DOMAIN hunk |-> PositionIn(raw, hunk[k])]

\* The positions of the changes (added and removed entries) of raw.
Changes(raw) == { k \in DOMAIN raw : raw[k].type # "keep" }

\* C28 (hunk structure): every hunk is a contiguous run of the edit script
\* (so no kept entry between two of its changes is left out) with at most 3
\* kept entries before its first change and after its last, and two changes
\* with no change between them are in one hunk exactly when their positions
\* differ by at most 7.
C28_HunkStructure ==
    res.op = "computeDiff" =>
      LET raw   == RawOf(res.oldContent, res.newContent)
          hunks == HunksOf(res.oldContent, res.newContent)
          at    == [g \in DOMAIN hunks |-> Positions(raw, hunks[g])]
          in(g) == { at[g][k] : k \in DOMAIN at[g] }
      IN  /\ \A g \in DOMAIN hunks :
               /\ \A k \in 1 .. Len(at[g]) - 1 : at[g][k + 1] = at[g][k] + 1
               /\ in(g) \cap Changes(raw) # {}
               /\ \A k \in in(g) :
                    \E c \in in(g) \cap Changes(raw) : c - k <= CONTEXT /\ k - c <= CONTEXT
          /\ \A i, j \in Changes(raw) :
               (i < j /\ \A k \in Changes(raw) : ~(i < k /\ k < j)) =>
                 ((\E g \in DOMAIN hunks : {i, j} \subseteq in(g)) <=> j - i <= 2 * CONTEXT + 1)
          /\ Changes(raw) \subseteq UNION { in(g) : g \in DOMAIN hunks }

\* The entries of the given type in the edit script raw.
EntriesOf(raw, type) == { k \in DOMAIN raw : raw[k].type = type }

\* C29 (change count): linesChanged is the number of added entries plus the
\* number of removed entries of the edit script; hasChanges is true exactly
\* when that is positive, which is exactly when the texts differ; when it is
\* zero the diff text is empty, and when not it starts with the two header
\* lines.
C29_ChangeCount ==
    res.op = "computeDiff" =>
      LET raw == RawOf(res.oldContent, res.newContent)
          n   == Cardinality(EntriesOf(raw, "add")) + Cardinality(EntriesOf(raw, "remove"))
      IN  /\ res.value.linesChanged = n
          /\ res.value.hasChanges <=> n > 0
          /\ n > 0 <=> res.oldContent # res.newContent
          /\ n = 0 => res.value.diff = << "" >>
          /\ n > 0 => /\ Len(res.value.diff) > 2
                      /\ SubSeq(res.value.diff, 1, 2) = << "--- a/f", "+++ b/f" >>

\* C29's case: computeDiff has returned for texts where one line is replaced
\* (an entry removed and one added) and one line is appended.
C29_Witness ==
    /\ res.op = "computeDiff"
    /\ res.oldContent = << "a", "b", "c" >>
    /\ res.newContent = << "a", "B", "c", "x" >>
    /\ res.value.linesChanged = 3
    /\ res.value.hasChanges

\* The number of new-file lines the edit script raw has produced before its
\* entry k: the kept and the added entries before it.
NewLinesBefore(raw, k) ==
    Cardinality({ j \in 1 .. k - 1 : raw[j].type # "remove" })

\* C30 (changedNewLines): changedNewLines holds the new-file line number of
\* every added entry (the line of the new text that is the entry's) and, for
\* every removed entry, the new-file position next to it (one more than the
\* new-file lines before it), and nothing else; every number in it is between
\* 1 and the number of lines of the new text.
C30_ChangedNewLines ==
    res.op = "computeDiff" =>
      LET raw == RawOf(res.oldContent, res.newContent)
      IN  /\ \A k \in EntriesOf(raw, "add") :
               /\ raw[k].newLine = NewLinesBefore(raw, k) + 1
               /\ res.newContent[raw[k].newLine] = raw[k].line
          /\ res.value.changedNewLines =
               { NewLinesBefore(raw, k) + 1 : k \in Changes(raw) }
          /\ \A n \in res.value.changedNewLines : 1 <= n /\ n <= Len(res.newContent)

\* C30 without the upper limit: the set is as the claim says, and every
\* number in it is between 1 and the number of lines of the new text plus one.
C30_ChangedNewLinesPastEnd ==
    res.op = "computeDiff" =>
      LET raw == RawOf(res.oldContent, res.newContent)
      IN  /\ \A k \in EntriesOf(raw, "add") :
               /\ raw[k].newLine = NewLinesBefore(raw, k) + 1
               /\ res.newContent[raw[k].newLine] = raw[k].line
          /\ res.value.changedNewLines =
               { NewLinesBefore(raw, k) + 1 : k \in Changes(raw) }
          /\ \A n \in res.value.changedNewLines : 1 <= n /\ n <= Len(res.newContent) + 1

\* LongDiff(n) is what computeDiff returns for the file with n lines added,
\* for the n within MaxLines.
LongDiffIsComputeDiff ==
    \A n \in 1 .. MaxLines : LongDiff(n) = computeDiff(<< "a", "b", "c" >>, Long(n), "f")

\* C31 (diff truncation): when the diff text has more than 200 lines readFile
\* returns its first 200 lines followed by one line that states the number of
\* changed lines, and when it has at most 200 lines the diff text itself;
\* linesChanged is the number of changed lines in both; a read without a
\* range has the diff as its content.
C31_DiffTruncation ==
    res.op = "diffAnswer" =>
      LET full == res.diffResult
          text == res.value.diff
      IN  /\ res.value.cached
          /\ res.value.linesChanged = res.added
          /\ res.offset = undefined => res.value.content = text
          /\ Len(full.diff) <= 200 => text = full.diff
          /\ Len(full.diff) > 200 =>
               /\ Len(text) = 201
               /\ SubSeq(text, 1, 200) = SubSeq(full.diff, 1, 200)
               /\ text[201] = "[... diff truncated at 200 lines. File has "
                               \o ToString(res.added) \o " total changes.]"

\* C31's case: readFile has answered a read without a range with the first
\* 200 of the 201 lines of the diff of 195 added lines, and the note.
C31_Witness ==
    /\ res.op = "diffAnswer"
    /\ res.added = 195
    /\ res.offset = undefined
    /\ Len(res.diffResult.diff) = 201
    /\ Len(res.value.content) = 201
    /\ res.value.linesChanged = 195

\* readFile misses the mtime index for p: no row, a row with another mtime,
\* or a row whose revision is not stored.
MtimeMiss(p) ==
    \/ file_mtimes[p] = NoEntry
    \/ file_mtimes[p].mtime_ms # disk[p].mtime
    \/ ~Stored(p, file_mtimes[p].hash)

\* C32 (mtime miss handling): a readFile that finds no mtime row for the
\* path, a row with another mtime, or a row whose revision is not stored,
\* answers from the file on disk (its hash, its line count) and leaves the
\* row of the path at (hash of the file, mtime of the file).  The table holds
\* one row per path by its primary key, which file_mtimes being a function of
\* the path stands for.
C32_MtimeMiss ==
    [][ \A p \in TrackedPaths :
          (Called("readFile") /\ res'.ok /\ res'.path = p /\ MtimeMiss(p)) =>
            /\ file_mtimes'[p] = [hash |-> DiskHash(p), mtime_ms |-> disk[p].mtime]
            /\ res'.value.hash = DiskHash(p)
            /\ res'.value.totalLines = Len(disk[p].content)
            /\ ~res'.value.cached /\ res'.offset = undefined =>
                 res'.value.content = disk[p].content ]_vars

\* C32's case: a readFile has confirmed the file unchanged although no
\* revision of the file's content is stored (it was pruned, and the
\* confirmation stores none): the call cannot have answered from a revision,
\* it has read the file, and the mtime row names the file's hash and mtime.
C32_Witness ==
    \E p \in TrackedPaths :
      /\ LastReadBy("s1", p)
      /\ res.file = disk[p]
      /\ res.value.cached
      /\ res.value.linesChanged = 0
      /\ res.value.hash = DiskHash(p)
      /\ ~Stored(p, DiskHash(p))
      /\ file_mtimes[p] = [hash |-> DiskHash(p), mtime_ms |-> disk[p].mtime]

(***************************************************************************)
(* The file watcher: FileWatcher.handleChange, CacheStore.onFileChanged    *)
(* and CacheStore.onFileDeleted.                                           *)
(***************************************************************************)
\* onFileChanged: the file is read and indexed for search again.
onFileChanged(db, dsk, filePath) ==
    UpdateIndex(db, [op |-> "update_index", path |-> filePath,
                     hash |-> contentHash(dsk[filePath].content)])

\* An onFileDeleted without its two DELETE FROM session_reads.
onFileDeletedKeepsPointers(db, filePath) ==
    LET dirKey == filePath \o "/"
    IN  [db EXCEPT
           !.file_versions = [p \in DOMAIN @ |->
                                IF p \in {filePath, dirKey} THEN << >> ELSE @[p]],
           !.indexed_files = [p \in DOMAIN @ |->
                                IF p = filePath THEN NoHash ELSE @[p]],
           !.file_mtimes   = [p \in DOMAIN @ |->
                                IF p = filePath THEN NoEntry ELSE @[p]]]

\* onFileDeleted: the seven DELETE statements, on the path and on its
\* directory key (the path with "/" appended).
onFileDeleted(db, filePath) ==
    LET dirKey == filePath \o "/"
    IN  [db EXCEPT
           !.file_versions = [p \in DOMAIN @ |->
                                IF p \in {filePath, dirKey} THEN << >> ELSE @[p]],
           !.session_reads = [k \in DOMAIN @ |->
                                IF k[3] \in {filePath, dirKey} THEN NoHash ELSE @[k]],
           !.indexed_files = [p \in DOMAIN @ |->
                                IF p = filePath THEN NoHash ELSE @[p]],
           !.file_mtimes   = [p \in DOMAIN @ |->
                                IF p = filePath THEN NoEntry ELSE @[p]]]

\* FileWatcher.handleChange on a watched path: onFileChanged when the file is
\* there, onFileDeleted when it is not.
HandleChange(filePath) ==
    /\ IF disk[filePath].exists
       THEN /\ SetDb(onFileChanged(Db, disk, filePath))
            /\ res' = Call("onFileChanged", "s1", filePath, undefined, undefined, TRUE,
                           "ok")
       ELSE /\ SetDb(onFileDeleted(Db, filePath))
            /\ res' = Call("onFileDeleted", "s1", filePath, undefined, undefined, TRUE,
                           "ok")
    /\ UNCHANGED << disk, branch, initialized, inflight >>

\* A watched file is removed and created again, with any content and a later
\* modification time, while two sessions read it and one of them lists its
\* directory, on either branch.
NextWatched ==
    \/ \E p \in TrackedPaths, c \in Contents :
         ~disk[p].exists /\ WriteFile(p, c, MaxMtime)
    \/ \E p \in TrackedPaths : DeleteFile(p)
    \/ \E p \in TrackedPaths : HandleChange(p)
    \/ \E br \in Branches : SwitchBranch(br)
    \/ \E s \in Sessions, p \in TrackedPaths : ReadFile(s, p, FullRead)
    \/ ListDirectory("s1")

SpecWatched == Init /\ [][NextWatched]_vars

\* The rows of path q in the three tables the watcher clears.
RowsOf(q) ==
    [versions |-> file_versions[q],
     reads    |-> [k \in Sessions \X Branches |-> session_reads[<<k[1], k[2], q>>]],
     mtime    |-> IF q \in Paths THEN file_mtimes[q] ELSE NoEntry]

\* The rows of path q after the step.
RowsOfNext(q) ==
    [versions |-> file_versions'[q],
     reads    |-> [k \in Sessions \X Branches |-> session_reads'[<<k[1], k[2], q>>]],
     mtime    |-> IF q \in Paths THEN file_mtimes'[q] ELSE NoEntry]

\* The rows of a path nothing is stored for.
NoRows ==
    [versions |-> << >>,
     reads    |-> [k \in Sessions \X Branches |-> NoHash],
     mtime    |-> NoEntry]

ReadIgnoredPath(session, path, req) ==
    /\ disk[path].exists
    /\ Followed
    /\ LET run == readFile(Db, disk, branch, session, path, req[1], req[2], "read_file")
       IN  /\ SetDb(ExecAll(Db, run.stmts))
           /\ res' = Call("readFile", session, path, req[1], req[2], run.ok, run.result)
    /\ UNCHANGED << disk, branch, initialized, inflight >>

\* readFileFull on an ignored path returns, as often as the client repeats it.
ReadFullIgnoredPath(session, path) ==
    /\ disk[path].exists
    /\ Followed
    /\ LET run == readFileFull(disk, branch, session, path, "read_file")
       IN  /\ SetDb(ExecAll(Db, run.stmts))
           /\ res' = Call("readFileFull", session, path, undefined, undefined, run.ok,
                          run.result)
    /\ UNCHANGED << disk, branch, initialized, inflight >>

\* A session reads a tracked file and, again and again, an ignored file that
\* is written in between.
NextIgnored ==
    \/ \E p \in IgnoredPaths, c \in Contents, m \in Mtimes : WriteFile(p, c, m)
    \/ \E p \in TrackedPaths, r \in Requests : ReadFile("s1", p, r)
    \/ \E p \in IgnoredPaths, r \in Requests : ReadIgnoredPath("s1", p, r)
    \/ \E p \in IgnoredPaths : ReadFullIgnoredPath("s1", p)

SpecIgnored == Init /\ [][NextIgnored]_vars

\* C34 (frame_effect): readFile and readFileFull on an ignored path return
\* cached = false with the file's present content (the requested lines of
\* it) and hash, on every call, and leave the revisions, the read pointers,
\* the mtime index and the event log as they were.
C34_IgnoredPaths ==
    [][ /\ disk' = disk
        /\ res'.op \in {"readFile", "readFileFull"}
        /\ res'.path \in IgnoredPaths
        /\ res'.ok
        => /\ ~res'.value.cached
           /\ res'.value.content =
                Selected(disk[res'.path].content, res'.offset, res'.limit)
           /\ res'.value.hash = DiskHash(res'.path)
           /\ res'.value.totalLines = Len(disk[res'.path].content)
           /\ UNCHANGED << file_versions, session_reads, file_mtimes, session_events >>
      ]_vars

\* C34's case: the store holds the rows of a tracked file's read, and the
\* ignored file, written since, has been read for the third time.
C34_Witness ==
    \E p \in IgnoredPaths :
      /\ res.op \in {"readFile", "readFileFull"}
      /\ res.path = p
      /\ res.ok
      /\ res.file = disk[p]
      /\ disk[p].content # <<"a", "b", "c">>
      /\ TotalCalls(Db) = 4
      /\ Len(session_events) = 1
      /\ \E q \in TrackedPaths : file_versions[q] # << >> /\ file_versions[p] = << >>

(***************************************************************************)
(* The copy of the SDK kept under cachebro/packages/sdk: its differ        *)
(* (differ.ts) and the range decision of its readFile on a changed file    *)
(* (cache.ts).                                                             *)
(***************************************************************************)
RECURSIVE LcsTable(_, _, _, _)
\* dp[i][j] of longestCommonSubsequence: the length of a longest common
\* subsequence of a[1..i] and b[1..j].
LcsTable(a, b, i, j) ==
    IF i = 0 \/ j = 0 THEN 0
    ELSE IF a[i] = b[j] THEN LcsTable(a, b, i - 1, j - 1) + 1
    ELSE Max(LcsTable(a, b, i - 1, j), LcsTable(a, b, i, j - 1))

RECURSIVE LcsBacktrack(_, _, _, _)
\* The backtrack of longestCommonSubsequence from (i, j).
LcsBacktrack(a, b, i, j) ==
    IF i = 0 \/ j = 0 THEN << >>
    ELSE IF a[i] = b[j] THEN Append(LcsBacktrack(a, b, i - 1, j - 1), a[i])
    ELSE IF LcsTable(a, b, i - 1, j) > LcsTable(a, b, i, j - 1)
         THEN LcsBacktrack(a, b, i - 1, j)
    ELSE LcsBacktrack(a, b, i, j - 1)

longestCommonSubsequence(a, b) == LcsBacktrack(a, b, Len(a), Len(b))

RECURSIVE rawLinesLcs(_, _, _, _, _, _)
\* The loop that collects rawLines, from (oldIdx, newIdx, lcsIdx), 0-based: a
\* line of the common subsequence is kept; else a new line is added before
\* an old line is removed.
rawLinesLcs(oldLines, newLines, lcs, oldIdx, newIdx, lcsIdx) ==
    IF ~(oldIdx < Len(oldLines) \/ newIdx < Len(newLines)) THEN << >>
    ELSE IF /\ lcsIdx < Len(lcs)
            /\ oldIdx < Len(oldLines)
            /\ oldLines[oldIdx + 1] = lcs[lcsIdx + 1]
            /\ newIdx < Len(newLines)
            /\ newLines[newIdx + 1] = lcs[lcsIdx + 1]
         THEN << RawLine("keep", oldLines[oldIdx + 1], oldIdx + 1, newIdx + 1) >>
              \o rawLinesLcs(oldLines, newLines, lcs, oldIdx + 1, newIdx + 1, lcsIdx + 1)
    ELSE IF /\ newIdx < Len(newLines)
            /\ (lcsIdx >= Len(lcs) \/ newLines[newIdx + 1] # lcs[lcsIdx + 1])
         THEN << RawLine("add", newLines[newIdx + 1], oldIdx + 1, newIdx + 1) >>
              \o rawLinesLcs(oldLines, newLines, lcs, oldIdx, newIdx + 1, lcsIdx)
    ELSE << RawLine("remove", oldLines[oldIdx + 1], oldIdx + 1, newIdx + 1) >>
         \o rawLinesLcs(oldLines, newLines, lcs, oldIdx + 1, newIdx, lcsIdx)

\* computeDiff of that copy, without the text of the diff: linesChanged,
\* hasChanges and changedNewLines (the new line of every added and of every
\* removed entry).
computeDiffLcs(oldContent, newContent) ==
    LET raw == rawLinesLcs(oldContent, newContent,
                           longestCommonSubsequence(oldContent, newContent), 0, 0, 0)
        linesChanged == Cardinality({ k \in DOMAIN raw : raw[k].type # "keep" })
    IN  [linesChanged    |-> linesChanged,
         hasChanges      |-> linesChanged # 0,
         changedNewLines |-> { raw[k].newLine :
                                 k \in { i \in DOMAIN raw : raw[i].type # "keep" } }]

\* rangeStart and rangeEnd, 1-based; offset and limit are 0 when not given.
rangeStart(offset) == IF offset > 0 THEN offset ELSE 1
rangeEnd(offset, limit, currentLines) ==
    IF limit > 0 THEN rangeStart(offset) + limit - 1 ELSE currentLines

\* sliceLines of that copy for a partial read.
sliceLinesRange(text, offset, limit) ==
    LET start == IF offset > 0 THEN offset - 1 ELSE 0
        end   == IF limit > 0 THEN start + limit ELSE Len(text)
    IN  Join(SubSeq(text, start + 1, Min(end, Len(text))))

\* The label of the confirmation for a range the changes do not touch.
UnchangedInRange(offset, limit, currentLines, slicedTokens) ==
    << "[cachebro: unchanged in lines " \o ToString(rangeStart(offset)) \o "-"
       \o ToString(rangeEnd(offset, limit, currentLines))
       \o ", changes elsewhere in file, " \o ToString(slicedTokens)
       \o " tokens saved]" >>

\* What readFile returns for a range of a file whose content is not the one
\* the session's pointer names, the revision it names being stored: the
\* confirmation when no line of the range is in changedNewLines, else the
\* lines.
readFileRange(oldContent, currentContent, offset, limit) ==
    LET diffResult == computeDiffLcs(oldContent, currentContent)
        currentLines == Len(currentContent)
        sliced == sliceLinesRange(currentContent, offset, limit)
        rangeHasChanges ==
            \E l \in rangeStart(offset) .. rangeEnd(offset, limit, currentLines) :
               l \in diffResult.changedNewLines
    IN  IF diffResult.hasChanges /\ ~rangeHasChanges
        THEN FileReadResult(TRUE,
                            UnchangedInRange(offset, limit, currentLines,
                                             estimateTokens(sliced)),
                            NoText, contentHash(currentContent), 0, currentLines)
        ELSE FileReadResult(FALSE, sliced, NoText, contentHash(currentContent),
                            undefined, currentLines)

\* The ranges asked for: offset and limit, 0 standing for not given, and not
\* both 0.
Ranges == { r \in (0 .. 3) \X (0 .. 2) : r[1] > 0 \/ r[2] > 0 }

\* readFile returns for a range, the session having seen oldContent and the
\* file holding currentContent; one call is followed.
ReadFileRange(oldContent, currentContent, r) ==
    /\ res.op # "readFileRange"
    /\ oldContent # currentContent
    /\ res' = [op |-> "readFileRange", oldContent |-> oldContent,
               newContent |-> currentContent, offset |-> r[1], limit |-> r[2],
               value |-> readFileRange(oldContent, currentContent, r[1], r[2])]
    /\ UNCHANGED << disk, branch, file_versions, session_reads, file_mtimes,
                    session_events, session_metrics, stats, session_stats,
                    indexed_files, user_version, initialized, inflight >>

NextRange ==
    \E input \in DiffInputs, r \in Ranges : ReadFileRange(input[1], input[2], r)

SpecRange == Init /\ [][NextRange]_vars

\* Lines start..end of a text, line by line; << >> where the text has no
\* such line.
LinesAt(text, start, end) ==
    [l \in start .. end |-> IF l \in DOMAIN text THEN << text[l] >> ELSE << >>]

\* C35 (safety): when readFile answers a range request on a changed file with
\* the unchanged-in-range confirmation, the lines of the range in the file's
\* content are the lines of the range in the revision the session last saw.
C35_RangeConfirmationSound ==
    res.op = "readFileRange" /\ res.value.cached
    => LET start == rangeStart(res.offset)
           end   == rangeEnd(res.offset, res.limit, Len(res.newContent))
       IN  LinesAt(res.newContent, start, end) = LinesAt(res.oldContent, start, end)

\* C36 (safety): a session whose only earlier read of a file was the range
\* [1,1] and that then asks for the disjoint range [2,2] of the unchanged
\* file receives those lines with cached = false, not a confirmation for
\* lines it has never been given.
C36_NoConfirmationForUnseenLines ==
    [][ \A s \in Sessions, p \in TrackedPaths :
          /\ LastReadBy(s, p)
          /\ Len(session_events) = 1
          /\ <<res.offset, res.limit>> = <<1, 1>>
          /\ res.file = disk[p]
          /\ res.value.content = SubSeq(disk[p].content, 1, 1)
          /\ Called("readFile")
          /\ res'.ok /\ res'.session = s /\ res'.path = p /\ res'.branch = branch
          /\ <<res'.offset, res'.limit>> = <<2, 1>>
          => /\ ~res'.value.cached
             /\ res'.value.content = SubSeq(disk[p].content, 2, 2)
      ]_vars

\* The calls session_metrics counts for a session's tool on the current
\* branch.
CallsOf(s, tool) == session_metrics[<<s, branch, tool>>].calls

\* C37 (invariants): every readFile that returns on a path that is not
\* ignored appends exactly one row to session_events and raises the call
\* count of the session's tool by exactly one, whichever branch it takes.
C37_OneEventOneCall ==
    [][ /\ Called("readFile")
        /\ res'.ok
        /\ res'.path \in TrackedPaths
        => /\ Len(session_events') = Len(session_events) + 1
           /\ session_metrics'[<<res'.session, branch, "read_file">>].calls
                = CallsOf(res'.session, "read_file") + 1
      ]_vars

\* C38 (safety): prune(k), k >= 1, keeps for every path the revision whose
\* hash the last readFile resolved as the file's current one.
C38_PruneKeepsLatestObserved ==
    [][ \A p \in TrackedPaths :
          /\ res.op = "readFile" /\ res.ok /\ res.path = p
          /\ Stored(p, res.value.hash)
          /\ res'.op = "prune"
          => SelectVersion([file_versions |-> file_versions'], p, res.value.hash) # {}
      ]_vars

\* C39 (temporal): a revertFile(p, n) by session s that succeeds leaves the
\* hash of the file, the returned restoredHash and s's pointer for p equal,
\* and s's next readFile(p), the file not having changed in between, returns
\* cached = true with linesChanged = 0.
C39_RevertThenRead ==
    [][ \A s \in Sessions, p \in TrackedPaths :
          /\ /\ res'.op = "revertFile" /\ res'.session = s /\ res'.path = p
             /\ session_metrics'[<<s, branch, "revert_file">>].calls
                  = CallsOf(s, "revert_file") + 1
             /\ res'.value.success
             => /\ contentHash(disk'[p].content) = res'.value.restoredHash
                /\ session_reads'[<<s, branch, p>>] = res'.value.restoredHash
          /\ /\ res.op = "revertFile" /\ res.session = s /\ res.path = p
             /\ res.value.success
             /\ DiskHash(p) = res.value.restoredHash
             /\ Called("readFile") /\ res'.ok /\ res'.session = s /\ res'.path = p
             => /\ res'.value.cached
                /\ res'.value.linesChanged = 0
      ]_vars

\* The second half of C39 where the file's modification time after the revert
\* is not the one the mtime row holds.
C39_RevertThenReadMtimeMoved ==
    [][ \A s \in Sessions, p \in TrackedPaths :
          /\ res.op = "revertFile" /\ res.session = s /\ res.path = p
          /\ res.value.success
          /\ DiskHash(p) = res.value.restoredHash
          /\ file_mtimes[p].mtime_ms # disk[p].mtime
          /\ Called("readFile") /\ res'.ok /\ res'.session = s /\ res'.path = p
          => /\ res'.value.cached
             /\ res'.value.linesChanged = 0
      ]_vars

(***************************************************************************)
(* CacheStore.clear and the token counters.                                *)
(***************************************************************************)
\* clear: the statements of its db.exec.  indexed_files is not among them.
clear(db) ==
    [db EXCEPT !.file_versions   = SCHEMA.file_versions,
               !.session_reads   = SCHEMA.session_reads,
               !.session_stats   = SCHEMA.session_stats,
               !.session_metrics = SCHEMA.session_metrics,
               !.session_events  = SCHEMA.session_events,
               !.file_mtimes     = SCHEMA.file_mtimes,
               !.stats           = 0]

\* clear returns.
Clear ==
    /\ SetDb(clear(Db))
    /\ res' = Call("clear", "s1", "/w/f", undefined, undefined, TRUE, "ok")
    /\ UNCHANGED << disk, branch, initialized, inflight >>

\* A file whose text costs more tokens than the label of a confirmation, and
\* the same file with a line edited.
SourceFile == << "export function open(path) {", "  return connect(path);", "}" >>
SourceFileEdited ==
    << "export function open(path) {", "  return connectTo(path);", "}" >>

\* Two sessions read a file of some size while it is edited; a call may fail
\* in one of its statements; the store may be cleared.
NextTokens ==
    \/ \E p \in TrackedPaths, c \in {SourceFile, SourceFileEdited} :
         WriteFile(p, c, MaxMtime)
    \/ \E s \in Sessions, p \in TrackedPaths : ReadFile(s, p, FullRead)
    \/ \E p \in TrackedPaths : ReadFileThrows("s1", p, FullRead)
    \/ Clear

SpecTokens == Init /\ [][NextTokens]_vars

RECURSIVE SumOver(_, _)
\* The sum of f over the set S of its arguments.
SumOver(f, S) ==
    IF S = {} THEN 0
    ELSE LET x == CHOOSE y \in S : TRUE IN f[x] + SumOver(f, S \ {x})

\* The sum of all sessions' tokens_saved.
SessionTokensSaved == SumOver(session_stats, Sessions)

\* C40 (invariants): the global tokens_saved is the sum of the sessions'
\* tokens_saved, in every state.
C40_TokenAccounting == stats = SessionTokensSaved

\* The other half of C40: a readFile that returns adds the same amount, not
\* negative, to the global counter and to its session's and leaves the other
\* sessions' counters alone; no other step but clear lowers a counter, and
\* clear sets them all to 0.
C40_CountersGrowTogether ==
    [][ /\ Called("readFile") /\ res'.ok
           => /\ stats' >= stats
              /\ stats' - stats
                   = session_stats'[res'.session] - session_stats[res'.session]
              /\ \A s \in Sessions \ {res'.session} :
                   session_stats'[s] = session_stats[s]
        /\ res'.op # "clear"
           => /\ stats' >= stats
              /\ \A s \in Sessions : session_stats'[s] >= session_stats[s]
        /\ res'.op = "clear" /\ res.op # "clear"
           => stats' = 0 /\ \A s \in Sessions : session_stats'[s] = 0
      ]_vars

============================================================================
